---------------------------- MODULE Spec2Model ----------------------------
(***************************************************************************)
(* Model of the client-side PDF tools of the pdf-editor repository:        *)
(*   - the watermark tool       (WatermarkPDFPage,  src/unnamed/part_003)  *)
(*   - the page-number tool     (PageNumbersPage,   page-numbers/page.tsx) *)
(*   - the rotate tool          (RotatePDFPage,     src/unnamed/part_005)  *)
(*   - the organize tool        (OrganizePDFPage,   src/unnamed/part_003)  *)
(*   - the crop tool            (CropPDFPage,       src/unnamed/part_001)  *)
(* Each tool is a React component: its state variables are the VARIABLES,  *)
(* its event handlers and effects are the actions.                         *)
(*                                                                         *)
(* Conventions.                                                            *)
(*   A nullable value (File | null, number | null, Uint8Array | null) is   *)
(*   a sequence of length 0 (null) or 1 (the value): None, Some(v).        *)
(*   Page indices are 0-based as in the code; page i of a document d is    *)
(*   d[i + 1].                                                             *)
(***************************************************************************)
EXTENDS Integers, Sequences, FiniteSets, TLC

\* ------------------------------------------------------------------ bounds
\* Largest number of pages of an uploaded document.
MaxPages == 3
\* Largest number of pages of a document uploaded to the organize tool.
MaxOrgPages == 2
\* Largest number of pages of a document uploaded to the crop tool.
MaxCropPages == 2
\* Largest number of times the mouse is pressed on the crop box.
MaxGestures == 1
\* Largest number of times the crop box is pressed in all, by the mouse or
\* by a finger.
MaxTouches == 2
\* Largest number of preview computations in flight at once.
MaxInflight == 2
\* Largest number of requests the API routes receive.
MaxRequests == 2

\* ------------------------------------------------------------------- state
\* The page of the application that is mounted: "/" is the home page with
\* the tool list; a tool's component lives while its page is mounted.
VARIABLE route

\* The watermark tool (WatermarkPDFPage).
VARIABLES
    wmFile,      \* file: File | null, the uploaded document
    wmSettings,  \* settings: WatermarkSettings
    wmOut,       \* what applyWatermark returned to the last handleDownload
    wmToasts,    \* the toasts the last handleDownload showed, in order
    wmRun,       \* the export made of the current file: None, or Some of
                 \*   [throwsAt, domThrows], what the run met on its way
    wmPreviewFile,   \* previewFile: None, or Some of [doc, req]: the
                     \*   document shown, and (history) the file and settings
                     \*   of the effect run that produced it
    wmTimer,         \* the pending setTimeout of the preview effect: None,
                     \*   or Some of the [file, settings] its callback closes
                     \*   over
    wmInflight,      \* the preview callbacks that await applyWatermark, each
                     \*   the [file, settings] it closes over
    wmPreviewFailed  \* history: a preview computation returned null since
                     \*   the file was selected

wmPvVars == <<wmPreviewFile, wmTimer, wmInflight, wmPreviewFailed>>
wmVars == <<wmFile, wmSettings, wmOut, wmToasts, wmRun, wmPvVars>>

\* The page-number tool (PageNumbersPage).
VARIABLES
    pnFile,        \* file: File | null
    pnSettings,    \* settings: PageNumberSettings
    pnTotalPages,  \* totalPages
    pnLoads,       \* the loadDoc() calls of the [file] effect that still
                   \*   await PDFDocument.load: the files they were started for
    pnOut,         \* what applyPageNumbers returned to the last handleDownload
    pnToasts,      \* the toasts the last handleDownload showed, in order
    pnRun,         \* the export made of the current file: None, or Some of
                   \*   [throwsAt, domThrows]
    pnPreviewFile,   \* previewFile: None, or Some of [doc, req]
    pnTimer,         \* the pending setTimeout of the preview effect
    pnInflight,      \* the preview callbacks that await applyPageNumbers
    pnPreviewFailed  \* history: a preview computation returned null since
                     \*   the file was selected

pnPvVars == <<pnPreviewFile, pnTimer, pnInflight, pnPreviewFailed>>
pnVars == <<pnFile, pnSettings, pnTotalPages, pnLoads, pnOut, pnToasts, pnRun,
           pnPvVars>>

\* The rotate tool (RotatePDFPage).
VARIABLES
    rotFile,       \* file: File | null; a document is the sequence of the
                   \*   /Rotate angles of its pages
    rotPageCount,  \* pageCount
    rotations,     \* rotations: number[], the accumulated delta of each page
    rotSaved,      \* the /Rotate angles of the document handleSave wrote:
                   \*   None, or Some of the sequence
    rotToasts,     \* the toasts the last handleSave showed
    rotSum,        \* history: the sum of the deltas the user applied to each
                   \*   page since the file was selected, modulo 360
    rotWritten     \* history: the indices of the pages the last handleSave
                   \*   called setRotation on

rotVars == <<rotFile, rotPageCount, rotations, rotSaved, rotToasts, rotSum,
             rotWritten>>

\* The organize tool (OrganizePDFPage).
VARIABLES
    orgFile,    \* file: File | null, a sequence of /Rotate angles
    orgPages,   \* pages: PageItem[], each [pageIndex, rotation, deleted]
    orgSaved,   \* the pages handleApplyChanges wrote: None, or Some of the
                \*   sequence of [pageIndex, rotate]
    orgToasts,  \* the toasts the last handleApplyChanges showed
    orgSum      \* history: the sum of the deltas applied to each page of the
                \*   file (by pageIndex + 1), modulo 360

orgVars == <<orgFile, orgPages, orgSaved, orgToasts, orgSum>>

\* The crop tool (CropPDFPage).
VARIABLES
    cropFile,       \* file: File | null; a document is the sequence of its
                    \*   pages' [mediaBox, cropBox], lengths in 1/100 pt
    cropSettings,   \* settings: CropSettings
    cropPageCount,  \* pageCount
    cropBox,        \* cropBox: the crop rectangle in percent of the page
    cropOut,        \* the document the last handleDownload saved, or None
    cropToasts,     \* the toasts the last handleDownload showed
    cropRun,        \* the export made of the current file: None, or Some of
                    \*   [throwsAt]
    cropDisk,       \* the file the browser downloaded last: None, or Some of
                    \*   [doc, box, settings] (the document, and the crop
                    \*   box and settings it was made with)
    cropOrigin,     \* history: None when the current file is an original,
                    \*   Some([box, settings]) when it is a downloaded file
                    \*   that was uploaded again
    isDragging,     \* isDragging: the crop box is being moved
    isResizing,     \* isResizing: string | null, the handle being pulled
    dragStart,      \* dragStart: [x, y, boxX, boxY, boxW, boxH], in percent
                    \*   of the page
    gestures,       \* history: the number of times the mouse or a finger
                    \*   was pressed on the crop box since the component
                    \*   was mounted
    pointerActiveRef \* pointerActiveRef.current: None for { active: false },
                     \*   Some(pointerId) for { active: true, pointerId }

cropGesture == <<isDragging, isResizing, dragStart, gestures, pointerActiveRef>>

cropVars == <<cropFile, cropSettings, cropPageCount, cropBox, cropOut,
              cropToasts, cropRun, cropDisk, cropOrigin, cropGesture>>

\* The server: the protect, unlock and compress API routes.
VARIABLES
    apiTmp,        \* the files in os.tmpdir(): a set of [req, kind], kind
                   \*   "input" or "output", req the request that made them
    apiResponses,  \* the responses returned so far, one per finished
                   \*   request: a sequence of [req, api, request, status,
                   \*   body]
    apiRunning,    \* the compress requests awaiting Ghostscript: a set of
                   \*   [req, request]
    apiCount       \* the number of requests received so far

apiVars == <<apiTmp, apiResponses, apiRunning, apiCount>>

vars == <<route, wmVars, pnVars, rotVars, orgVars, cropVars, apiVars>>

\* What the handlers of one tool leave alone: the route and the state of the
\* other tools.
notWm == <<route, pnVars, rotVars, orgVars, cropVars, apiVars>>
notPn == <<route, wmVars, rotVars, orgVars, cropVars, apiVars>>
notRot == <<route, wmVars, pnVars, orgVars, cropVars, apiVars>>
notOrg == <<route, wmVars, pnVars, rotVars, cropVars, apiVars>>
notCrop == <<route, wmVars, pnVars, rotVars, orgVars, apiVars>>
notApi == <<route, wmVars, pnVars, rotVars, orgVars, cropVars>>

\* ----------------------------------------------------------------- helpers
None == <<>>
Some(v) == <<v>>
IsNull(o) == o = <<>>
Val(o) == o[1]

Max(a, b) == IF a >= b THEN a ELSE b
Min(a, b) == IF a <= b THEN a ELSE b

Range(s) == {s[i] : i \in 1..Len(s)}

\* JavaScript truthiness of a `number | null`: null and 0 are falsy.
Truthy(o) == ~IsNull(o) /\ Val(o) # 0

\* JavaScript `a % n` (the sign of the result is the sign of a).
JsRem(a, n) == IF a >= 0 THEN a % n ELSE -((-a) % n)

\* The indices 0..n-1 that are in S, ascending (Array.prototype.filter).
FilterIdx(n, S) == SelectSeq([i \in 1..n |-> i - 1], LAMBDA i : i \in S)

\* Array.from({length: len}, (_, i) => start + i); a negative length is 0.
ArrayFrom(len, start) == [i \in 1..Max(0, len) |-> start + (i - 1)]

\* ------------------------------------------------------------- documents
\* A page of a loaded PDF, as far as the tools read or write it:
\*   arr    TRUE when /Contents is a PDFArray, FALSE when it is a single
\*          stream (one item) or absent (no item)
\*   items  the content streams in paint order; the streams of the uploaded
\*          file are 1, 2, ...; NewStream is the stream pdf-lib appends for
\*          the draw calls of the current apply
\*   ops    the draw operations written into NewStream, in order
NewStream == 0

\* Lengths on a page are kept in units of 1/6000 pt, so that every value
\* the code computes from whole-point page sizes, font metrics in
\* thousandths of the font size, scales in tenths and the divisions by 2, 3
\* and 6 of the placement code is a whole number of units.
Pt(n) == 6000 * n

PageSize(w, h) == [width |-> Pt(w), height |-> Pt(h)]

PageKinds ==
    << [arr |-> FALSE, items |-> <<>>,        ops |-> <<>>, size |-> PageSize(300, 300)],
       [arr |-> FALSE, items |-> <<1>>,       ops |-> <<>>, size |-> PageSize(612, 792)],
       [arr |-> TRUE,  items |-> <<1>>,       ops |-> <<>>, size |-> PageSize(100, 60)],
       [arr |-> TRUE,  items |-> <<1, 2>>,    ops |-> <<>>, size |-> PageSize(842, 595)],
       [arr |-> TRUE,  items |-> <<1, 2, 3>>, ops |-> <<>>, size |-> PageSize(595, 842)] >>

\* The uploaded files: n pages, page i of kind (i + k) mod Len(PageKinds).
MkDoc(n, k) == [i \in 1..n |-> PageKinds[((i + k) % Len(PageKinds)) + 1]]
Docs == {MkDoc(n, k) : n \in 1..MaxPages, k \in 0..(Len(PageKinds) - 1)}

\* pdf-lib PDFPage.pushOperators: the first draw call on a page registers a
\* new content stream, turns /Contents into an array and appends the stream;
\* later draw calls on the same page write into that same stream.
PushOps(page, newOps) ==
    [arr   |-> TRUE,
     items |-> IF NewStream \in Range(page.items) THEN page.items
               ELSE Append(page.items, NewStream),
     ops   |-> page.ops \o newOps,
     size  |-> page.size]

\* page.getSize() of a page of these documents: MediaBox width and height.
PageGetSize(page) == page.size

\* -- positions ------------------------------------------------------------
Positions == {"tl", "tc", "tr", "cl", "cc", "cr", "bl", "bc", "br"}

\* position.includes(ch) for the letters the code asks about.
Includes(position, ch) ==
    CASE ch = "l" -> position \in {"tl", "cl", "bl"}
      [] ch = "r" -> position \in {"tr", "cr", "br"}
      [] ch = "t" -> position \in {"tl", "tc", "tr"}
      [] ch = "b" -> position \in {"bl", "bc", "br"}
      [] ch = "c" -> position \in {"tc", "cl", "cc", "cr", "bc"}

\* position.startsWith('t')
StartsWithT(position) == position \in {"tl", "tc", "tr"}

\* pdf-lib heightAtSize(size) of the standard Helvetica fonts: ascender 718
\* minus descender -207, in thousandths of the size.
HeightAtSize(size) == 925 * size * 6

\* What a failing await or a throwing library call does to an apply: where
\* (if anywhere) the run throws.  Page p >= 0: a call made while page p is
\* processed throws (getSize, widthOfTextAtSize, drawText, drawImage).
ThrowNone == <<"none">>
ThrowLoad == <<"load">>
ThrowSave == <<"save">>
ThrowAtPage(p) == <<"page", p>>
ThrowPoints(n) ==
    {ThrowNone, ThrowLoad, ThrowSave} \cup {ThrowAtPage(p) : p \in 0..(n - 1)}

\* ======================================================== watermark tool
\* settings.imageFile: the declared MIME type and what the bytes really are.
ImageFiles ==
    {Some([type |-> t, bytes |-> b]) :
        t \in {"image/png", "image/jpeg"}, b \in {"png", "jpg", "bad"}}

\* opacity and imageScale are kept in tenths (the sliders step by 0.1).
WmDefaultSettings ==
    [type       |-> "text",
     text       |-> "CONFIDENTIAL",
     textSize   |-> 48,
     textColor  |-> "#FF0000",
     opacity    |-> 5,
     rotation   |-> -45,
     position   |-> "cc",
     imageFile  |-> None,
     imageScale |-> 5,
     isTiled    |-> FALSE,
     startPage  |-> 1,
     endPage    |-> None,
     layer      |-> "over"]

\* The texts tried as watermark text.
Texts == {"CONFIDENTIAL", "DRAFT", ""}

\* The advance width of a text in Helvetica-Bold, in thousandths of the
\* font size (sum of the AFM widths of its characters).
HelveticaBoldWidth(text) ==
    CASE text = "CONFIDENTIAL" -> 7444
      [] text = "DRAFT"        -> 3388
      [] text = ""             -> 0

\* helveticaFont.widthOfTextAtSize(text, size)
WmWidthOfTextAtSize(text, size) == HelveticaBoldWidth(text) * size * 6

\* const margin = 20
WmMargin == 20

\* -- applyWatermark ----------------------------------------------------
WmStartIdx(s) == Max(0, s.startPage - 1)

WmEndIdx(s, n) ==
    IF Truthy(s.endPage) THEN Min(n - 1, Val(s.endPage) - 1) ELSE n - 1

WmTargetIndices(s, n) ==
    IF WmEndIdx(s, n) >= WmStartIdx(s)
    THEN WmStartIdx(s)..WmEndIdx(s, n)
    ELSE {}

WmPagesToProcess(s, n, isPreview) ==
    IF isPreview THEN <<0>> ELSE FilterIdx(n, WmTargetIndices(s, n))

\* pdfDoc.embedPng / embedJpg: throws (None) on bytes of another format;
\* the embedded image knows its pixel size.
EmbedPng(bytes) ==
    IF bytes = "png" THEN Some([kind |-> "png", width |-> 400, height |-> 200])
    ELSE None
EmbedJpg(bytes) ==
    IF bytes = "jpg" THEN Some([kind |-> "jpg", width |-> 120, height |-> 300])
    ELSE None

\* embeddedImage: the declared type is tried first, the other one when that
\* throws; when both throw the error is logged and embeddedImage stays null.
WmEmbedImage(s, isPreview) ==
    IF s.type = "image" /\ ~IsNull(s.imageFile) /\ ~isPreview
    THEN LET f == Val(s.imageFile)
             first  == IF f.type = "image/png"
                       THEN EmbedPng(f.bytes) ELSE EmbedJpg(f.bytes)
             second == IF f.type = "image/png"
                       THEN EmbedJpg(f.bytes) ELSE EmbedPng(f.bytes)
         IN  IF ~IsNull(first) THEN first ELSE second
    ELSE None

\* A variant of the fixed position whose right and top anchors forget the
\* size of the element.
WmAnchor_IgnoresElementSize(position, size, w, h) ==
    [x |-> IF Includes(position, "r") THEN size.width - Pt(WmMargin)
           ELSE IF Includes(position, "l") THEN Pt(WmMargin)
           ELSE (size.width - w) \div 2,
     y |-> IF Includes(position, "b") THEN Pt(WmMargin)
           ELSE IF Includes(position, "t") THEN size.height - Pt(WmMargin)
           ELSE (size.height - h) \div 2]

\* A variant of the fixed position that never goes below the margin.
WmAnchor_Clamped(position, size, w, h) ==
    [x |-> Max(Pt(WmMargin),
               IF Includes(position, "r") THEN size.width - w - Pt(WmMargin)
               ELSE IF Includes(position, "l") THEN Pt(WmMargin)
               ELSE (size.width - w) \div 2),
     y |-> Max(Pt(WmMargin),
               IF Includes(position, "b") THEN Pt(WmMargin)
               ELSE IF Includes(position, "t") THEN size.height - h - Pt(WmMargin)
               ELSE (size.height - h) \div 2)]

\* The fixed position: centred, then moved to the margin by the letters of
\* the position (l, r, t, b), for an element of size w x h.
WmAnchor(position, size, w, h) ==
    [x |-> IF Includes(position, "r") THEN size.width - w - Pt(WmMargin)
           ELSE IF Includes(position, "l") THEN Pt(WmMargin)
           ELSE (size.width - w) \div 2,
     y |-> IF Includes(position, "b") THEN Pt(WmMargin)
           ELSE IF Includes(position, "t") THEN size.height - h - Pt(WmMargin)
           ELSE (size.height - h) \div 2]

\* A variant of the tiling with the loops exchanged: outer iy, inner ix.
TileCenters_OuterY(size) ==
    [k \in 1..9 |->
        LET iy == (k - 1) \div 3
            ix == (k - 1) % 3
        IN  [cx |-> (size.width * (ix * 2 + 1)) \div 6,
             cy |-> (size.height * (iy * 2 + 1)) \div 6]]

\* The centres of the nine tiles, outer loop ix, inner loop iy:
\* cx = width * ((ix * 2 + 1) / 6), cy = height * ((iy * 2 + 1) / 6).
TileCenters(size) ==
    [k \in 1..9 |->
        LET ix == (k - 1) \div 3
            iy == (k - 1) % 3
        IN  [cx |-> (size.width * (ix * 2 + 1)) \div 6,
             cy |-> (size.height * (iy * 2 + 1)) \div 6]]

\* Where drawTextAt is called: (cx - textWidth / 2, cy - textHeight / 3) for
\* every tile, or the fixed position.
WmTextPlacements(s, size) ==
    LET textWidth  == WmWidthOfTextAtSize(s.text, s.textSize)
        textHeight == HeightAtSize(s.textSize)
    IN  IF s.isTiled
        THEN [k \in 1..9 |->
                [x |-> TileCenters(size)[k].cx - textWidth \div 2,
                 y |-> TileCenters(size)[k].cy - textHeight \div 3]]
        ELSE << WmAnchor(s.position, size, textWidth, textHeight) >>

\* Where drawPlaceholder / drawImageAt is called: (cx - imgW / 2,
\* cy - imgH / 2) for every tile, or the fixed position.
WmImagePlacements(s, size, imgW, imgH) ==
    IF s.isTiled
    THEN [k \in 1..9 |->
            [x |-> TileCenters(size)[k].cx - imgW \div 2,
             y |-> TileCenters(size)[k].cy - imgH \div 2]]
    ELSE << WmAnchor(s.position, size, imgW, imgH) >>

\* drawTextAt at every placement.
WmTextOps(s, size) ==
    LET at == WmTextPlacements(s, size)
    IN  [k \in 1..Len(at) |->
            [op |-> "text", text |-> s.text, x |-> at[k].x, y |-> at[k].y,
             width |-> WmWidthOfTextAtSize(s.text, s.textSize),
             height |-> HeightAtSize(s.textSize),
             size |-> s.textSize, color |-> s.textColor,
             opacity |-> s.opacity, rotate |-> s.rotation]]

\* drawImageAt at every placement; dims = embeddedImage.scale(imageScale).
WmImageOps(s, size, embeddedImage) ==
    LET imgW == 600 * embeddedImage.width * s.imageScale
        imgH == 600 * embeddedImage.height * s.imageScale
        at   == WmImagePlacements(s, size, imgW, imgH)
    IN  [k \in 1..Len(at) |->
            [op |-> "image", text |-> embeddedImage.kind,
             x |-> at[k].x, y |-> at[k].y, width |-> imgW, height |-> imgH,
             size |-> 0, color |-> "",
             opacity |-> s.opacity, rotate |-> s.rotation]]

\* drawPlaceholder: a 200 x 100 box scaled by imageScale and the label
\* 'IMAGE' in it, at every placement.
WmPlaceholderOps(s, size) ==
    LET imgW == 600 * 200 * s.imageScale
        imgH == 600 * 100 * s.imageScale
        at   == WmImagePlacements(s, size, imgW, imgH)
    IN  [k \in 1..(2 * Len(at)) |->
            LET p == at[(k + 1) \div 2]
            IN  IF k % 2 = 1
                THEN [op |-> "rect", text |-> "",
                      x |-> p.x, y |-> p.y, width |-> imgW, height |-> imgH,
                      size |-> 0, color |-> "#E6E6E6",
                      opacity |-> s.opacity, rotate |-> s.rotation]
                ELSE [op |-> "label", text |-> "IMAGE",
                      x |-> p.x + imgW \div 2 - Pt(20),
                      y |-> p.y + imgH \div 2 - Pt(5),
                      width |-> 0, height |-> 0,
                      size |-> 12, color |-> "#808080",
                      opacity |-> 10, rotate |-> s.rotation]]

\* The drawing branch of the page loop.
\* A variant of the drawing whose preview shows a text watermark once, at
\* its position, also when it is tiled.
WmDrawPage_PreviewUntiled(page, s, isPreview, embeddedImage) ==
    IF s.type = "text"
    THEN PushOps(page, WmTextOps(IF isPreview THEN [s EXCEPT !.isTiled = FALSE]
                                 ELSE s, PageGetSize(page)))
    ELSE IF isPreview THEN PushOps(page, WmPlaceholderOps(s, PageGetSize(page)))
    ELSE IF ~IsNull(embeddedImage)
         THEN PushOps(page, WmImageOps(s, PageGetSize(page), Val(embeddedImage)))
    ELSE page

WmDrawPage(page, s, isPreview, embeddedImage) ==
    IF s.type = "text" THEN PushOps(page, WmTextOps(s, PageGetSize(page)))
    ELSE IF isPreview THEN PushOps(page, WmPlaceholderOps(s, PageGetSize(page)))
    ELSE IF ~IsNull(embeddedImage)
         THEN PushOps(page, WmImageOps(s, PageGetSize(page), Val(embeddedImage)))
    ELSE page

\* A variant of the layering that inserts the new stream at index 1, behind
\* the first of the page's own streams.
WmLayer_InsertAtOne(page, s) ==
    IF s.layer = "under" /\ page.arr /\ Len(page.items) - 1 > 0
    THEN [page EXCEPT !.items =
            <<page.items[1], page.items[Len(page.items)]>>
                \o SubSeq(page.items, 2, Len(page.items) - 1)]
    ELSE page

\* A variant of the layering that removes the last entry before it looks at
\* the size of the array, and puts it back only when there are others.
WmLayer_RemoveUnguarded(page, s) ==
    IF s.layer = "under" /\ page.arr /\ Len(page.items) > 0
    THEN [page EXCEPT !.items =
            IF Len(page.items) - 1 > 0
            THEN <<page.items[Len(page.items)]>>
                    \o SubSeq(page.items, 1, Len(page.items) - 1)
            ELSE <<>>]
    ELSE page

\* HANDLE LAYERING 'UNDER': the last entry of the /Contents array moves to
\* index 0.  (page.node.Contents(), PDFArray.get/remove/insert do not throw
\* for an index inside the array, so the catch branch is not modelled.)
WmLayer(page, s) ==
    IF s.layer = "under" /\ page.arr /\ Len(page.items) - 1 > 0
    THEN [page EXCEPT !.items =
            <<page.items[Len(page.items)]>>
                \o SubSeq(page.items, 1, Len(page.items) - 1)]
    ELSE page

\* for (const page of pagesToProcess) { ... }: the run stops at the first
\* page whose processing throws, with the pages before it already mutated.
RECURSIVE WmLoop(_, _, _, _, _, _)
WmLoop(pdfDoc, todo, s, isPreview, img, throwsAt) ==
    IF todo = <<>> THEN [thrown |-> FALSE, doc |-> pdfDoc]
    ELSE IF throwsAt = ThrowAtPage(Head(todo))
         THEN [thrown |-> TRUE, doc |-> pdfDoc]
         ELSE WmLoop(
                [pdfDoc EXCEPT ![Head(todo) + 1] =
                    WmLayer(WmDrawPage(@, s, isPreview, img), s)],
                Tail(todo), s, isPreview, img, throwsAt)

\* catch (error) { console.error(...); return null; }
\* A variant of the catch branch that returns the document as far as it got.
WmCatch_KeepPartial(pdfDoc) == Some(pdfDoc)
WmCatch(pdfDoc) == None

ApplyWatermark(originalFile, s, isPreview, throwsAt) ==
    IF throwsAt = ThrowLoad THEN WmCatch(originalFile)
    ELSE LET r == WmLoop(originalFile,
                         WmPagesToProcess(s, Len(originalFile), isPreview),
                         s, isPreview, WmEmbedImage(s, isPreview), throwsAt)
         IN  IF r.thrown \/ throwsAt = ThrowSave
             THEN WmCatch(r.doc)
             ELSE Some(r.doc)


\* -- the component ------------------------------------------------------
WmInit ==
    /\ wmFile = None
    /\ wmSettings = WmDefaultSettings
    /\ wmOut = None
    /\ wmToasts = <<>>
    /\ wmRun = None
    /\ wmPreviewFile = None
    /\ wmTimer = None
    /\ wmInflight = {}
    /\ wmPreviewFailed = FALSE

\* The component unmounts: the next mount starts from the initial state.
WmUnmount ==
    /\ wmFile' = None
    /\ wmSettings' = WmDefaultSettings
    /\ wmOut' = None
    /\ wmToasts' = <<>>
    /\ wmRun' = None
    /\ wmPreviewFile' = None
    /\ wmTimer' = None
    /\ wmInflight' = {}
    /\ wmPreviewFailed' = FALSE

\* The preview effect, run after a render in which file or settings is a new
\* value: the cleanup of the previous run clears its timeout; without a file
\* the preview is cleared, with one a new 500 ms timeout is set whose
\* callback closes over the new file and settings.  Callbacks that already
\* run are not touched.
WmPreviewEffect ==
    /\ wmTimer' = IF IsNull(wmFile') THEN None
                  ELSE Some([file |-> Val(wmFile'), settings |-> wmSettings'])
    /\ wmPreviewFile' = IF IsNull(wmFile') THEN None ELSE wmPreviewFile
    /\ wmInflight' = wmInflight

\* What the user can type into the two page fields.
PageInputs == (-1)..(MaxPages + 1)

\* <FileUploader onFilesSelected>: setFile(files[0]); the [file] effect then
\* loads the document and sets settings.endPage to its page count.
WmFileSelected(f) ==
    /\ route = "/watermark-pdf"
    /\ IsNull(wmFile)
    /\ wmFile' = Some(f)
    /\ wmSettings' = [wmSettings EXCEPT !.endPage = Some(Len(f))]
    /\ wmPreviewFailed' = FALSE
    /\ UNCHANGED <<wmOut, wmToasts, wmRun>>
    /\ WmPreviewEffect
    /\ UNCHANGED notWm

\* "Change File": setFile(null); setSettings(defaultSettings).
WmChangeFile ==
    /\ route = "/watermark-pdf"
    /\ ~IsNull(wmFile)
    /\ wmFile' = None
    /\ wmSettings' = WmDefaultSettings
    /\ wmOut' = None
    /\ wmToasts' = <<>>
    /\ wmRun' = None
    /\ wmPreviewFailed' = FALSE
    /\ WmPreviewEffect
    /\ UNCHANGED notWm

WmEditing == route = "/watermark-pdf" /\ ~IsNull(wmFile) /\ IsNull(wmRun)

WmSetType(t) ==
    /\ WmEditing
    /\ wmSettings' = [wmSettings EXCEPT !.type = t]
    /\ UNCHANGED <<wmFile, wmOut, wmToasts, wmRun, wmPreviewFailed>>
    /\ WmPreviewEffect
    /\ UNCHANGED notWm

WmSetImageFile(f) ==
    /\ WmEditing
    /\ wmSettings.type = "image"
    /\ ~IsNull(f)
    /\ wmSettings' = [wmSettings EXCEPT !.imageFile = f]
    /\ UNCHANGED <<wmFile, wmOut, wmToasts, wmRun, wmPreviewFailed>>
    /\ WmPreviewEffect
    /\ UNCHANGED notWm

WmSetTiled(b) ==
    /\ WmEditing
    /\ wmSettings' = [wmSettings EXCEPT !.isTiled = b]
    /\ UNCHANGED <<wmFile, wmOut, wmToasts, wmRun, wmPreviewFailed>>
    /\ WmPreviewEffect
    /\ UNCHANGED notWm

WmSetLayer(l) ==
    /\ WmEditing
    /\ wmSettings' = [wmSettings EXCEPT !.layer = l]
    /\ UNCHANGED <<wmFile, wmOut, wmToasts, wmRun, wmPreviewFailed>>
    /\ WmPreviewEffect
    /\ UNCHANGED notWm

\* PositionGrid button: position: pos, isTiled: false
WmSetPosition(pos) ==
    /\ WmEditing
    /\ wmSettings' = [wmSettings EXCEPT !.position = pos, !.isTiled = FALSE]
    /\ UNCHANGED <<wmFile, wmOut, wmToasts, wmRun, wmPreviewFailed>>
    /\ WmPreviewEffect
    /\ UNCHANGED notWm

\* text input: text: e.target.value
WmSetText(t) ==
    /\ WmEditing
    /\ wmSettings.type = "text"
    /\ wmSettings' = [wmSettings EXCEPT !.text = t]
    /\ UNCHANGED <<wmFile, wmOut, wmToasts, wmRun, wmPreviewFailed>>
    /\ WmPreviewEffect
    /\ UNCHANGED notWm

\* size input: textSize: Number(e.target.value)
WmSetTextSize(v) ==
    /\ WmEditing
    /\ wmSettings.type = "text"
    /\ wmSettings' = [wmSettings EXCEPT !.textSize = v]
    /\ UNCHANGED <<wmFile, wmOut, wmToasts, wmRun, wmPreviewFailed>>
    /\ WmPreviewEffect
    /\ UNCHANGED notWm

\* scale slider (0.1 .. 2, step 0.1): imageScale: Number(e.target.value)
WmSetImageScale(v) ==
    /\ WmEditing
    /\ wmSettings.type = "image"
    /\ v \in 1..20
    /\ wmSettings' = [wmSettings EXCEPT !.imageScale = v]
    /\ UNCHANGED <<wmFile, wmOut, wmToasts, wmRun, wmPreviewFailed>>
    /\ WmPreviewEffect
    /\ UNCHANGED notWm

\* opacity slider (0.1 .. 1, step 0.1): opacity: Number(e.target.value)
WmSetOpacity(v) ==
    /\ WmEditing
    /\ v \in 1..10
    /\ wmSettings' = [wmSettings EXCEPT !.opacity = v]
    /\ UNCHANGED <<wmFile, wmOut, wmToasts, wmRun, wmPreviewFailed>>
    /\ WmPreviewEffect
    /\ UNCHANGED notWm

\* rotation slider (-180 .. 180, step 15): rotation: Number(e.target.value)
WmSetRotation(v) ==
    /\ WmEditing
    /\ v \in (-180)..180 /\ v % 15 = 0
    /\ wmSettings' = [wmSettings EXCEPT !.rotation = v]
    /\ UNCHANGED <<wmFile, wmOut, wmToasts, wmRun, wmPreviewFailed>>
    /\ WmPreviewEffect
    /\ UNCHANGED notWm

\* startPage: Math.max(1, parseInt(e.target.value) || 1)
WmSetStartPage(v) ==
    /\ WmEditing
    /\ wmSettings' = [wmSettings EXCEPT
            !.startPage = Max(1, IF v = 0 THEN 1 ELSE v)]
    /\ UNCHANGED <<wmFile, wmOut, wmToasts, wmRun, wmPreviewFailed>>
    /\ WmPreviewEffect
    /\ UNCHANGED notWm

\* endPage: e.target.value ? parseInt(e.target.value) : null
WmSetEndPage(o) ==
    /\ WmEditing
    /\ wmSettings' = [wmSettings EXCEPT !.endPage = o]
    /\ UNCHANGED <<wmFile, wmOut, wmToasts, wmRun, wmPreviewFailed>>
    /\ WmPreviewEffect
    /\ UNCHANGED notWm

ToastSuccess(msg) == [kind |-> "success", msg |-> msg]
ToastError(msg) == [kind |-> "error", msg |-> msg]

\* The toasts of the watermark handleDownload, given what applyWatermark
\* returned and whether building the download link threw.
WmDownloadToasts(pdfBytes, domThrows) ==
    IF ~IsNull(pdfBytes)
    THEN IF domThrows THEN <<ToastError("Error processing PDF")>>
         ELSE <<ToastSuccess("Watermark added successfully!")>>
    ELSE <<ToastError("Failed to create PDF")>>

WmHandleDownload(throwsAt, domThrows) ==
    /\ WmEditing
    /\ throwsAt \in ThrowPoints(Len(Val(wmFile)))
    /\ LET pdfBytes == ApplyWatermark(Val(wmFile), wmSettings, FALSE, throwsAt)
       IN  /\ wmOut' = pdfBytes
           /\ wmToasts' = WmDownloadToasts(pdfBytes, domThrows)
           /\ wmRun' = Some([throwsAt  |-> throwsAt,
                             domThrows |-> domThrows /\ ~IsNull(pdfBytes)])
    /\ UNCHANGED <<wmFile, wmSettings, wmPvVars>>
    /\ UNCHANGED notWm

\* The timeout of the preview effect fires: in image mode without an image
\* the callback shows the original file at once, otherwise it starts
\* applyWatermark(file, settings, true) and awaits it.
WmPreviewTimerFires ==
    /\ route = "/watermark-pdf"
    /\ ~IsNull(wmTimer)
    /\ wmTimer' = None
    /\ LET c == Val(wmTimer)
       IN  IF c.settings.type = "image" /\ IsNull(c.settings.imageFile)
           THEN /\ wmPreviewFile' = Some([doc |-> c.file, req |-> c])
                /\ wmInflight' = wmInflight
           ELSE /\ Cardinality(wmInflight \cup {c}) <= MaxInflight
                /\ wmInflight' = wmInflight \cup {c}
                /\ wmPreviewFile' = wmPreviewFile
    /\ UNCHANGED <<wmFile, wmSettings, wmOut, wmToasts, wmRun, wmPreviewFailed>>
    /\ UNCHANGED notWm

\* What a preview callback does with the bytes it awaited:
\* if (pdfBytes) setPreviewFile(new File([blob], 'preview.pdf')).
WmDeliver(c, pdfBytes, current) ==
    IF ~IsNull(pdfBytes) THEN Some([doc |-> Val(pdfBytes), req |-> c])
    ELSE current

\* The applyWatermark a preview callback awaits returns.
WmPreviewCompletes(throwsAt) ==
    \E c \in wmInflight :
        /\ route = "/watermark-pdf"
        /\ throwsAt \in {ThrowNone, ThrowLoad, ThrowSave, ThrowAtPage(0)}
        /\ wmInflight' = wmInflight \ {c}
        /\ LET pdfBytes == ApplyWatermark(c.file, c.settings, TRUE, throwsAt)
           IN  /\ wmPreviewFile' = WmDeliver(c, pdfBytes, wmPreviewFile)
               /\ wmPreviewFailed' = (wmPreviewFailed \/ IsNull(pdfBytes))
        /\ UNCHANGED <<wmFile, wmSettings, wmOut, wmToasts, wmRun, wmTimer>>
        /\ UNCHANGED notWm

WmNext ==
    \/ \E f \in Docs : WmFileSelected(f)
    \/ WmChangeFile
    \/ \E t \in {"text", "image"} : WmSetType(t)
    \/ \E f \in ImageFiles : WmSetImageFile(f)
    \/ \E b \in BOOLEAN : WmSetTiled(b)
    \/ \E l \in {"over", "under"} : WmSetLayer(l)
    \/ \E v \in PageInputs : WmSetStartPage(v)
    \/ \E o \in {None} \cup {Some(v) : v \in PageInputs} : WmSetEndPage(o)
    \/ \E t \in ThrowPoints(MaxPages), d \in BOOLEAN : WmHandleDownload(t, d)

\* ====================================================== page-number tool
Formats == {"n", "n of total", "Page n", "Page n of total"}

PnPositions == {"tl", "tc", "tr", "bl", "bc", "br"}

PnDefaultSettings ==
    [position  |-> "bc",
     format    |-> "n",
     startFrom |-> 1,
     fromPage  |-> 1,
     toPage    |-> None,
     fontSize  |-> 12,
     margin    |-> 20,
     color     |-> "#000000"]

\* -- applyPageNumbers ---------------------------------------------------
PnStartIdx(s) == Max(0, s.fromPage - 1)

PnEndIdx(s, total) ==
    IF Truthy(s.toPage) THEN Min(total, Val(s.toPage)) ELSE total

PnPagesToProcess(s, total, isPreview) ==
    IF isPreview THEN <<PnStartIdx(s)>>
    ELSE ArrayFrom(PnEndIdx(s, total) - PnStartIdx(s), PnStartIdx(s))

\* numberVal = startFrom + (pageIdx - startIdx)
\* A variant that counts from the page index instead of from the position in
\* the range.
PnNumberVal_FromPageIndex(s, pageIdx) == s.startFrom + pageIdx
PnNumberVal(s, pageIdx) == s.startFrom + (pageIdx - PnStartIdx(s))

\* The text of one page number: the format, N, and T where the format
\* shows it (`${numberVal} of ${total}`, `Page ${numberVal} of ${total}`).
PnText(s, pageIdx, total) ==
    [format |-> s.format,
     n      |-> PnNumberVal(s, pageIdx),
     total  |-> IF s.format \in {"n of total", "Page n of total"}
                THEN Some(total) ELSE None]

\* The number of characters of `${n}` for n >= 0.
RECURSIVE NumDigits(_)
NumDigits(n) == IF n < 10 THEN 1 ELSE 1 + NumDigits(n \div 10)

\* The advance width of `${n}` in Helvetica, in thousandths of the font
\* size: 556 for a digit, 333 for the minus sign.
HelveticaNumberWidth(n) ==
    IF n < 0 THEN 333 + 556 * NumDigits(-n) ELSE 556 * NumDigits(n)

\* The advance width of a page-number text in Helvetica, in thousandths of
\* the font size: 'Page ' is 2613, ' of ' is 1390.
HelveticaWidth(text) ==
    HelveticaNumberWidth(text.n)
      + (IF text.format \in {"Page n", "Page n of total"} THEN 2613 ELSE 0)
      + (IF ~IsNull(text.total)
         THEN 1390 + HelveticaNumberWidth(Val(text.total)) ELSE 0)

\* helveticaFont.widthOfTextAtSize(text, fontSize)
PnWidthOfTextAtSize(text, size) == HelveticaWidth(text) * size * 6

\* Determine X, Y: the vertical place from the first letter of the position,
\* the horizontal one from l, c or neither.
PnAnchor(s, size, textWidth, textHeight) ==
    [x |-> IF Includes(s.position, "l") THEN Pt(s.margin)
           ELSE IF Includes(s.position, "c") THEN (size.width - textWidth) \div 2
           ELSE size.width - Pt(s.margin) - textWidth,
     y |-> IF StartsWithT(s.position)
           THEN size.height - Pt(s.margin) - textHeight
           ELSE Pt(s.margin)]

PnDrawPage(page, s, pageIdx, total) ==
    LET text       == PnText(s, pageIdx, total)
        textWidth  == PnWidthOfTextAtSize(text, s.fontSize)
        textHeight == HeightAtSize(s.fontSize)
        at         == PnAnchor(s, PageGetSize(page), textWidth, textHeight)
    IN  PushOps(page, << [op |-> "text", text |-> text,
                          x |-> at.x, y |-> at.y,
                          width |-> textWidth, height |-> textHeight,
                          size |-> s.fontSize, color |-> s.color] >>)

\* for (const pageIdx of pagesToProcess) { if (pageIdx >= total) continue; ... }
RECURSIVE PnLoop(_, _, _, _, _)
PnLoop(pdfDoc, todo, s, total, throwsAt) ==
    IF todo = <<>> THEN [thrown |-> FALSE, doc |-> pdfDoc]
    ELSE IF Head(todo) >= total
         THEN PnLoop(pdfDoc, Tail(todo), s, total, throwsAt)
         ELSE IF throwsAt = ThrowAtPage(Head(todo))
              THEN [thrown |-> TRUE, doc |-> pdfDoc]
              ELSE PnLoop(
                     [pdfDoc EXCEPT ![Head(todo) + 1] =
                         PnDrawPage(@, s, Head(todo), total)],
                     Tail(todo), s, total, throwsAt)

\* catch (error) { console.error(...); return null; }
PnCatch(pdfDoc) == None

\* total = pages.length is read once, before the loop.  The preview is the
\* page startIdx copied into a new one-page document; copyPages throws for
\* an index that is no page of the document.
ApplyPageNumbers(originalFile, s, isPreview, throwsAt) ==
    IF throwsAt = ThrowLoad THEN PnCatch(originalFile)
    ELSE LET total == Len(originalFile)
             r == PnLoop(originalFile, PnPagesToProcess(s, total, isPreview),
                         s, total, throwsAt)
         IN  IF r.thrown \/ throwsAt = ThrowSave THEN PnCatch(r.doc)
             ELSE IF isPreview
                  THEN IF PnStartIdx(s) >= total THEN PnCatch(r.doc)
                       ELSE Some(<<r.doc[PnStartIdx(s) + 1]>>)
                  ELSE Some(r.doc)

\* -- the component ------------------------------------------------------
PnInit ==
    /\ pnFile = None
    /\ pnSettings = PnDefaultSettings
    /\ pnTotalPages = 0
    /\ pnLoads = {}
    /\ pnOut = None
    /\ pnToasts = <<>>
    /\ pnRun = None
    /\ pnPreviewFile = None
    /\ pnTimer = None
    /\ pnInflight = {}
    /\ pnPreviewFailed = FALSE

\* The component unmounts: the next mount starts from the initial state.
PnUnmount ==
    /\ pnFile' = None
    /\ pnSettings' = PnDefaultSettings
    /\ pnTotalPages' = 0
    /\ pnLoads' = {}
    /\ pnOut' = None
    /\ pnToasts' = <<>>
    /\ pnRun' = None
    /\ pnPreviewFile' = None
    /\ pnTimer' = None
    /\ pnInflight' = {}
    /\ pnPreviewFailed' = FALSE

\* The preview effect, run after a render in which file, settings or
\* totalPages is a new value: the cleanup of the previous run clears its
\* timeout; without a file or a page count the preview is cleared, otherwise
\* a new 500 ms timeout is set.  Callbacks that already run are not touched.
PnPreviewEffect ==
    /\ pnTimer' = IF IsNull(pnFile') \/ pnTotalPages' = 0 THEN None
                  ELSE Some([file |-> Val(pnFile'), settings |-> pnSettings'])
    /\ pnPreviewFile' = IF IsNull(pnFile') \/ pnTotalPages' = 0 THEN None
                        ELSE pnPreviewFile
    /\ pnInflight' = pnInflight

\* What the user can type into the "start from" field (Number(value)).
StartFromInputs == {0, 1, 5}

\* <FileUploader onFilesSelected>: setFile(files[0]); the [file] effect then
\* loads the document, sets totalPages and settings.toPage to its page count.
PnFileSelected(f) ==
    /\ route = "/page-numbers"
    /\ IsNull(pnFile)
    /\ pnFile' = Some(f)
    /\ pnTotalPages' = Len(f)
    /\ pnSettings' = [pnSettings EXCEPT !.toPage = Some(Len(f))]
    /\ pnPreviewFailed' = FALSE
    /\ UNCHANGED <<pnOut, pnToasts, pnRun>>
    /\ PnPreviewEffect
    /\ UNCHANGED pnLoads
    /\ UNCHANGED notPn

\* "Change File": setFile(null); setSettings(defaultSettings); the [file]
\* effect sets totalPages to 0.
PnChangeFile ==
    /\ route = "/page-numbers"
    /\ ~IsNull(pnFile)
    /\ pnFile' = None
    /\ pnSettings' = PnDefaultSettings
    /\ pnTotalPages' = 0
    /\ pnOut' = None
    /\ pnToasts' = <<>>
    /\ pnRun' = None
    /\ pnPreviewFailed' = FALSE
    /\ PnPreviewEffect
    /\ UNCHANGED pnLoads
    /\ UNCHANGED notPn

PnEditing == route = "/page-numbers" /\ ~IsNull(pnFile) /\ IsNull(pnRun)

PnSetFormat(f) ==
    /\ PnEditing
    /\ pnSettings' = [pnSettings EXCEPT !.format = f]
    /\ UNCHANGED <<pnFile, pnTotalPages, pnOut, pnToasts, pnRun, pnPreviewFailed>>
    /\ PnPreviewEffect
    /\ UNCHANGED pnLoads
    /\ UNCHANGED notPn

\* PositionButton: position: pos
PnSetPosition(pos) ==
    /\ PnEditing
    /\ pnSettings' = [pnSettings EXCEPT !.position = pos]
    /\ UNCHANGED <<pnFile, pnTotalPages, pnOut, pnToasts, pnRun, pnPreviewFailed>>
    /\ PnPreviewEffect
    /\ UNCHANGED pnLoads
    /\ UNCHANGED notPn

\* font size input: fontSize: Number(e.target.value)
PnSetFontSize(v) ==
    /\ PnEditing
    /\ pnSettings' = [pnSettings EXCEPT !.fontSize = v]
    /\ UNCHANGED <<pnFile, pnTotalPages, pnOut, pnToasts, pnRun, pnPreviewFailed>>
    /\ PnPreviewEffect
    /\ UNCHANGED pnLoads
    /\ UNCHANGED notPn

\* margin input: margin: Number(e.target.value)
PnSetMargin(v) ==
    /\ PnEditing
    /\ pnSettings' = [pnSettings EXCEPT !.margin = v]
    /\ UNCHANGED <<pnFile, pnTotalPages, pnOut, pnToasts, pnRun, pnPreviewFailed>>
    /\ PnPreviewEffect
    /\ UNCHANGED pnLoads
    /\ UNCHANGED notPn

PnSetStartFrom(v) ==
    /\ PnEditing
    /\ pnSettings' = [pnSettings EXCEPT !.startFrom = v]
    /\ UNCHANGED <<pnFile, pnTotalPages, pnOut, pnToasts, pnRun, pnPreviewFailed>>
    /\ PnPreviewEffect
    /\ UNCHANGED pnLoads
    /\ UNCHANGED notPn

\* fromPage: Math.min(Math.max(1, Number(e.target.value)), totalPages)
PnSetFromPage(v) ==
    /\ PnEditing
    /\ pnSettings' = [pnSettings EXCEPT
            !.fromPage = Min(Max(1, v), pnTotalPages)]
    /\ UNCHANGED <<pnFile, pnTotalPages, pnOut, pnToasts, pnRun, pnPreviewFailed>>
    /\ PnPreviewEffect
    /\ UNCHANGED pnLoads
    /\ UNCHANGED notPn

\* toPage: Math.min(Math.max(1, Number(e.target.value)), totalPages)
PnSetToPage(v) ==
    /\ PnEditing
    /\ pnSettings' = [pnSettings EXCEPT
            !.toPage = Some(Min(Max(1, v), pnTotalPages))]
    /\ UNCHANGED <<pnFile, pnTotalPages, pnOut, pnToasts, pnRun, pnPreviewFailed>>
    /\ PnPreviewEffect
    /\ UNCHANGED pnLoads
    /\ UNCHANGED notPn

\* The toasts of the page-number handleDownload: there is no else branch for
\* a null result.
PnDownloadToasts(pdfBytes, domThrows) ==
    IF ~IsNull(pdfBytes)
    THEN IF domThrows THEN <<ToastError("Error processing PDF")>>
         ELSE <<ToastSuccess("Page numbers added successfully!")>>
    ELSE <<>>

PnHandleDownload(throwsAt, domThrows) ==
    /\ PnEditing
    /\ throwsAt \in ThrowPoints(Len(Val(pnFile)))
    /\ LET pdfBytes == ApplyPageNumbers(Val(pnFile), pnSettings, FALSE, throwsAt)
       IN  /\ pnOut' = pdfBytes
           /\ pnToasts' = PnDownloadToasts(pdfBytes, domThrows)
           /\ pnRun' = Some([throwsAt  |-> throwsAt,
                             domThrows |-> domThrows /\ ~IsNull(pdfBytes)])
    /\ UNCHANGED <<pnFile, pnSettings, pnTotalPages, pnPvVars>>
    /\ UNCHANGED pnLoads
    /\ UNCHANGED notPn

\* The timeout of the preview effect fires: the callback starts
\* applyPageNumbers(file, settings, true) and awaits it.
PnPreviewTimerFires ==
    /\ route = "/page-numbers"
    /\ ~IsNull(pnTimer)
    /\ pnTimer' = None
    /\ Cardinality(pnInflight \cup {Val(pnTimer)}) <= MaxInflight
    /\ pnInflight' = pnInflight \cup {Val(pnTimer)}
    /\ UNCHANGED <<pnFile, pnSettings, pnTotalPages, pnOut, pnToasts, pnRun,
                   pnPreviewFile, pnPreviewFailed>>
    /\ UNCHANGED pnLoads
    /\ UNCHANGED notPn

\* What a preview callback does with the bytes it awaited:
\* if (pdfBytes) setPreviewFile(new File([blob], 'preview.pdf')).
PnDeliver(c, pdfBytes, current) ==
    IF ~IsNull(pdfBytes) THEN Some([doc |-> Val(pdfBytes), req |-> c])
    ELSE current

\* The applyPageNumbers a preview callback awaits returns.
PnPreviewCompletes(throwsAt) ==
    \E c \in pnInflight :
        /\ route = "/page-numbers"
        /\ throwsAt \in {ThrowNone, ThrowLoad, ThrowSave}
                        \cup {ThrowAtPage(PnStartIdx(c.settings))}
        /\ pnInflight' = pnInflight \ {c}
        /\ LET pdfBytes == ApplyPageNumbers(c.file, c.settings, TRUE, throwsAt)
           IN  /\ pnPreviewFile' = PnDeliver(c, pdfBytes, pnPreviewFile)
               /\ pnPreviewFailed' = (pnPreviewFailed \/ IsNull(pdfBytes))
        /\ UNCHANGED <<pnFile, pnSettings, pnTotalPages, pnOut, pnToasts, pnRun,
                       pnTimer>>
        /\ UNCHANGED pnLoads
        /\ UNCHANGED notPn

\* <FileUploader onFilesSelected> alone: setFile(files[0]); the [file] effect
\* starts loadDoc(), which awaits file.arrayBuffer() and PDFDocument.load, so
\* totalPages keeps its value until PnLoadDocCompletes.  PnFileSelected above
\* is the run in which loadDoc resolves before the next event.
PnFilePicked(f) ==
    /\ route = "/page-numbers"
    /\ IsNull(pnFile)
    /\ pnFile' = Some(f)
    /\ pnLoads' = pnLoads \cup {f}
    /\ pnPreviewFailed' = FALSE
    /\ UNCHANGED <<pnSettings, pnTotalPages, pnOut, pnToasts, pnRun>>
    /\ PnPreviewEffect
    /\ UNCHANGED notPn

\* A pending loadDoc() returns: setTotalPages(doc.getPageCount()) and
\* setSettings(prev => ({ ...prev, toPage: doc.getPageCount() })), or the
\* catch logs the error.  The effect has no cleanup, so the call completes
\* whatever file is selected by then.
PnLoadDocCompletes(loadThrows) ==
    \E f \in pnLoads :
        /\ route = "/page-numbers"
        /\ pnLoads' = pnLoads \ {f}
        /\ pnTotalPages' = IF loadThrows THEN pnTotalPages ELSE Len(f)
        /\ pnSettings' = IF loadThrows THEN pnSettings
                         ELSE [pnSettings EXCEPT !.toPage = Some(Len(f))]
        /\ UNCHANGED <<pnFile, pnOut, pnToasts, pnRun, pnPreviewFailed>>
        /\ IF loadThrows THEN UNCHANGED pnPvVars ELSE PnPreviewEffect
        /\ UNCHANGED notPn

PnNext ==
    \/ \E f \in Docs : PnFileSelected(f)
    \/ PnChangeFile
    \/ \E f \in Formats : PnSetFormat(f)
    \/ \E v \in StartFromInputs : PnSetStartFrom(v)
    \/ \E v \in PageInputs : PnSetFromPage(v)
    \/ \E v \in PageInputs : PnSetToPage(v)
    \/ \E t \in ThrowPoints(MaxPages), d \in BOOLEAN : PnHandleDownload(t, d)

\* =========================================================== rotate tool
\* The uploaded files of the rotate and organize tools: n pages, page i with
\* /Rotate 90 * ((i + k) mod 4).
RotDoc(n, k) == [i \in 1..n |-> 90 * ((i + k) % 4)]
RotDocs == {RotDoc(n, k) : n \in 1..MaxPages, k \in 0..3}
OrgDocs == {RotDoc(n, k) : n \in 1..MaxOrgPages, k \in 0..3}

\* pdf-lib PDFPage.setRotation(degrees(a)) stores a as the page's /Rotate;
\* getRotation().angle reads it back.
SetRotation(angle) == angle

RotInit ==
    /\ rotFile = None
    /\ rotPageCount = 0
    /\ rotations = <<>>
    /\ rotSaved = None
    /\ rotToasts = <<>>
    /\ rotSum = <<>>
    /\ rotWritten = {}

RotUnmount ==
    /\ rotFile' = None
    /\ rotPageCount' = 0
    /\ rotations' = <<>>
    /\ rotSaved' = None
    /\ rotToasts' = <<>>
    /\ rotSum' = <<>>
    /\ rotWritten' = {}

\* handleFileSelected: setFile, setPageCount(count),
\* setRotations(new Array(count).fill(0)).
RotFileSelected(f) ==
    /\ route = "/rotate-pdf"
    /\ IsNull(rotFile)
    /\ rotFile' = Some(f)
    /\ rotPageCount' = Len(f)
    /\ rotations' = [i \in 1..Len(f) |-> 0]
    /\ rotSum' = [i \in 1..Len(f) |-> 0]
    /\ rotWritten' = {}
    /\ rotSaved' = None
    /\ rotToasts' = <<>>
    /\ UNCHANGED notRot

\* The "remove" button: setFile(null); pageCount and rotations stay.
RotRemoveFile ==
    /\ route = "/rotate-pdf"
    /\ ~IsNull(rotFile)
    /\ rotFile' = None
    /\ rotSaved' = None
    /\ rotToasts' = <<>>
    /\ rotWritten' = {}
    /\ UNCHANGED <<rotPageCount, rotations, rotSum>>
    /\ UNCHANGED notRot

RotEditing == route = "/rotate-pdf" /\ ~IsNull(rotFile) /\ IsNull(rotSaved)

\* handleRotateAll: prev.map(r => (r + angle) % 360)
RotHandleRotateAll(angle) ==
    /\ RotEditing
    /\ rotations' = [i \in 1..Len(rotations) |-> JsRem(rotations[i] + angle, 360)]
    /\ rotSum' = [i \in 1..Len(rotSum) |-> (rotSum[i] + angle) % 360]
    /\ UNCHANGED <<rotFile, rotPageCount, rotSaved, rotToasts, rotWritten>>
    /\ UNCHANGED notRot

\* handleRotatePage: newRotations[index] = (newRotations[index] + angle) % 360
RotHandleRotatePage(index, angle) ==
    /\ RotEditing
    /\ index \in 0..(rotPageCount - 1)
    /\ rotations' = [rotations EXCEPT ![index + 1] = JsRem(@ + angle, 360)]
    /\ rotSum' = [rotSum EXCEPT ![index + 1] = (@ + angle) % 360]
    /\ UNCHANGED <<rotFile, rotPageCount, rotSaved, rotToasts, rotWritten>>
    /\ UNCHANGED notRot

\* A variant of the guard that writes every page.
RotWrites_Always(rotation) == TRUE

\* if (rotation !== 0): whether handleSave calls setRotation on a page.
RotWrites(rotation) == rotation # 0

\* The angle handleSave leaves on page index of the loaded document:
\* if (rotation !== 0) page.setRotation(degrees(page.getRotation().angle + rotation))
RotSavedAngle(current, rotation) ==
    IF RotWrites(rotation) THEN SetRotation(current + rotation) ELSE current

\* handleSave: load, rotate every page, save, toast; any throw is caught.
RotHandleSave(throwsAt) ==
    /\ RotEditing
    /\ IF throwsAt = ThrowNone
       THEN /\ rotSaved' = Some([i \in 1..Len(Val(rotFile)) |->
                                  RotSavedAngle(Val(rotFile)[i], rotations[i])])
            /\ rotWritten' = {i \in 1..Len(Val(rotFile)) : RotWrites(rotations[i])}
            /\ rotToasts' = <<ToastSuccess("PDF rotated successfully!")>>
       ELSE /\ rotSaved' = Some(<<>>)
            /\ rotWritten' = {}
            /\ rotToasts' = <<ToastError("Failed to rotate PDF")>>
    /\ UNCHANGED <<rotFile, rotPageCount, rotations, rotSum>>
    /\ UNCHANGED notRot

RotNext ==
    \/ \E f \in RotDocs : RotFileSelected(f)
    \/ RotRemoveFile
    \/ \E a \in {90, -90} : RotHandleRotateAll(a)
    \/ \E i \in 0..(MaxPages - 1), a \in {90, -90} : RotHandleRotatePage(i, a)
    \/ \E t \in {ThrowNone, ThrowLoad, ThrowSave} : RotHandleSave(t)

\* ========================================================= organize tool
OrgInit ==
    /\ orgFile = None
    /\ orgPages = <<>>
    /\ orgSaved = None
    /\ orgToasts = <<>>
    /\ orgSum = <<>>

OrgUnmount ==
    /\ orgFile' = None
    /\ orgPages' = <<>>
    /\ orgSaved' = None
    /\ orgToasts' = <<>>
    /\ orgSum' = <<>>

\* handleFileSelected: one PageItem per page, rotation 0, not deleted.
OrgFileSelected(f) ==
    /\ route = "/organize-pdf"
    /\ IsNull(orgFile)
    /\ orgFile' = Some(f)
    /\ orgPages' = [i \in 1..Len(f) |->
                      [pageIndex |-> i - 1, rotation |-> 0, deleted |-> FALSE]]
    /\ orgSum' = [i \in 1..Len(f) |-> 0]
    /\ orgSaved' = None
    /\ orgToasts' = <<>>
    /\ UNCHANGED notOrg

\* "Change File": setFile(null).
OrgChangeFile ==
    /\ route = "/organize-pdf"
    /\ ~IsNull(orgFile)
    /\ orgFile' = None
    /\ orgSaved' = None
    /\ orgToasts' = <<>>
    /\ UNCHANGED <<orgPages, orgSum>>
    /\ UNCHANGED notOrg

OrgEditing == route = "/organize-pdf" /\ ~IsNull(orgFile) /\ IsNull(orgSaved)

\* arrayMove(items, oldIndex, newIndex) of @dnd-kit/sortable (1-based here).
ArrayMove(items, from, to) ==
    LET without == SubSeq(items, 1, from - 1) \o SubSeq(items, from + 1, Len(items))
    IN  SubSeq(without, 1, to - 1) \o <<items[from]>>
            \o SubSeq(without, to, Len(without))

\* handleDragEnd: the dragged item moves to the place of the item it is
\* dropped on.
OrgHandleDragEnd(from, to) ==
    /\ OrgEditing
    /\ from \in 1..Len(orgPages) /\ to \in 1..Len(orgPages) /\ from # to
    /\ orgPages' = ArrayMove(orgPages, from, to)
    /\ UNCHANGED <<orgFile, orgSaved, orgToasts, orgSum>>
    /\ UNCHANGED notOrg

\* handleRotate: rotation: (item.rotation + (direction === 'cw' ? 90 : -90)) % 360
OrgHandleRotate(k, direction) ==
    /\ OrgEditing
    /\ k \in 1..Len(orgPages)
    /\ LET delta == IF direction = "cw" THEN 90 ELSE -90
       IN  /\ orgPages' = [orgPages EXCEPT
                             ![k].rotation = JsRem(@ + delta, 360)]
           /\ orgSum' = [orgSum EXCEPT
                             ![orgPages[k].pageIndex + 1] = (@ + delta) % 360]
    /\ UNCHANGED <<orgFile, orgSaved, orgToasts>>
    /\ UNCHANGED notOrg

\* handleDelete / handleRestore
OrgHandleSetDeleted(k, d) ==
    /\ OrgEditing
    /\ k \in 1..Len(orgPages)
    /\ orgPages[k].deleted # d
    /\ orgPages' = [orgPages EXCEPT ![k].deleted = d]
    /\ UNCHANGED <<orgFile, orgSaved, orgToasts, orgSum>>
    /\ UNCHANGED notOrg

\* The angle handleApplyChanges leaves on a copied page:
\* if (page.rotation !== 0) setRotation((currentRotation + page.rotation) % 360)
OrgSavedAngle(current, rotation) ==
    IF rotation # 0 THEN SetRotation(JsRem(current + rotation, 360)) ELSE current

\* handleApplyChanges: the pages that are not deleted are copied in their
\* order; with none left only an error toast is shown.
OrgHandleApplyChanges(throwsAt) ==
    /\ OrgEditing
    /\ LET activePages == SelectSeq(orgPages, LAMBDA q : ~q.deleted)
       IN  IF activePages = <<>>
           THEN /\ orgSaved' = Some(<<>>)
                /\ orgToasts' = <<ToastError("Cannot create a PDF with no pages")>>
           ELSE IF throwsAt = ThrowNone
           THEN /\ orgSaved' = Some([j \in 1..Len(activePages) |->
                     [pageIndex |-> activePages[j].pageIndex,
                      rotate    |-> OrgSavedAngle(
                                        Val(orgFile)[activePages[j].pageIndex + 1],
                                        activePages[j].rotation)]])
                /\ orgToasts' = <<ToastSuccess("PDF organized successfully!")>>
           ELSE /\ orgSaved' = Some(<<>>)
                /\ orgToasts' = <<ToastError("Failed to organize PDF")>>
    /\ UNCHANGED <<orgFile, orgPages, orgSum>>
    /\ UNCHANGED notOrg

OrgNext ==
    \/ \E f \in OrgDocs : OrgFileSelected(f)
    \/ OrgChangeFile
    \/ \E a \in 1..MaxOrgPages, b \in 1..MaxOrgPages : OrgHandleDragEnd(a, b)
    \/ \E k \in 1..MaxOrgPages, d \in {"cw", "ccw"} : OrgHandleRotate(k, d)
    \/ \E k \in 1..MaxOrgPages, d \in BOOLEAN : OrgHandleSetDeleted(k, d)
    \/ \E t \in {ThrowNone, ThrowLoad, ThrowSave} : OrgHandleApplyChanges(t)

\* ============================================================= crop tool
Box(x, y, w, h) == [x |-> x, y |-> y, width |-> w, height |-> h]

\* A page as uploaded: MediaBox [0 0 w h]; getCropBox() is the MediaBox when
\* the page has no CropBox of its own.
CropPage(w, h) == [mediaBox |-> Box(0, 0, w, h), cropBox |-> Box(0, 0, w, h)]

\* The uploaded files: n pages, portrait 500 x 700 pt and landscape
\* 700 x 500 pt alternating (lengths in 1/100 pt).
CropDoc(n, k) ==
    [i \in 1..n |-> IF (i + k) % 2 = 0 THEN CropPage(50000, 70000)
                    ELSE CropPage(70000, 50000)]
CropDocs == {CropDoc(n, k) : n \in 1..MaxCropPages, k \in 0..1}

CropDefaultSettings ==
    [startPage |-> 1, endPage |-> None, applyToAll |-> TRUE]

CropDefaultBox == Box(10, 10, 80, 80)

\* pdf-lib PDFPage.getSize(): the width and height of the MediaBox.
GetSize(page) == [width |-> page.mediaBox.width, height |-> page.mediaBox.height]

\* -- handleDownload: the page loop ---------------------------------------
CropStartIdx(s) == Max(0, s.startPage - 1)

CropEndIdx(s, n) ==
    IF Truthy(s.endPage) THEN Min(n - 1, Val(s.endPage) - 1) ELSE n - 1

\* A variant of the conversion that keeps the top-left origin of the UI.
CropRect_NoFlip(box, size) ==
    LET cropX      == (box.x * size.width) \div 100
        cropY      == (box.y * size.height) \div 100
        cropWidth  == (box.width * size.width) \div 100
        cropHeight == (box.height * size.height) \div 100
    IN  Box(cropX, cropY, cropWidth, cropHeight)

\* A variant of the conversion that scales the height by the page width.
CropRect_HeightByWidth(box, size) ==
    LET cropX      == (box.x * size.width) \div 100
        cropY      == (box.y * size.height) \div 100
        cropWidth  == (box.width * size.width) \div 100
        cropHeight == (box.height * size.width) \div 100
        pdfY       == size.height - cropY - cropHeight
    IN  Box(cropX, pdfY, cropWidth, cropHeight)

\* Convert percentage to PDF points; PDF origin is bottom-left, flip Y.
CropRect(box, size) ==
    LET cropX      == (box.x * size.width) \div 100
        cropY      == (box.y * size.height) \div 100
        cropWidth  == (box.width * size.width) \div 100
        cropHeight == (box.height * size.height) \div 100
        pdfY       == size.height - cropY - cropHeight
    IN  Box(cropX, pdfY, cropWidth, cropHeight)

\* The inverse mapping, from document space back to percent of the page:
\* uiX = docX / pageWidth * 100, uiY = (pageHeight - docY - docHeight) /
\* pageHeight * 100, and the width and height as percent of the page's.
ToUISpace(rect, size) ==
    Box((rect.x * 100) \div size.width,
        ((size.height - rect.y - rect.height) * 100) \div size.height,
        (rect.width * 100) \div size.width,
        (rect.height * 100) \div size.height)

\* page.setCropBox(...); page.setMediaBox(...) with the same rectangle.
CropPageApply(page, box) ==
    [mediaBox |-> CropRect(box, GetSize(page)),
     cropBox  |-> CropRect(box, GetSize(page))]

\* for (let i = startIdx; i <= endIdx; i++) { ... }
RECURSIVE CropLoop(_, _, _, _, _)
CropLoop(pdfDoc, i, endIdx, box, throwsAt) ==
    IF i > endIdx THEN [thrown |-> FALSE, doc |-> pdfDoc]
    ELSE IF throwsAt = ThrowAtPage(i)
         THEN [thrown |-> TRUE, doc |-> pdfDoc]
         ELSE CropLoop([pdfDoc EXCEPT ![i + 1] = CropPageApply(@, box)],
                       i + 1, endIdx, box, throwsAt)

\* The document handleDownload saves: None when load, a page or save threw.
CropApply(file, s, box, throwsAt) ==
    IF throwsAt = ThrowLoad THEN None
    ELSE LET r == CropLoop(file, CropStartIdx(s), CropEndIdx(s, Len(file)),
                           box, throwsAt)
         IN  IF r.thrown \/ throwsAt = ThrowSave THEN None ELSE Some(r.doc)

\* -- the component ------------------------------------------------------
\* useState({ x: 0, y: 0, boxX: 0, boxY: 0, boxW: 0, boxH: 0 })
DragStartInit == [x |-> 0, y |-> 0, boxX |-> 0, boxY |-> 0, boxW |-> 0, boxH |-> 0]

CropInit ==
    /\ cropFile = None
    /\ cropSettings = CropDefaultSettings
    /\ cropPageCount = 0
    /\ cropBox = CropDefaultBox
    /\ cropOut = None
    /\ cropToasts = <<>>
    /\ cropRun = None
    /\ cropDisk = None
    /\ cropOrigin = None
    /\ isDragging = FALSE
    /\ isResizing = None
    /\ dragStart = DragStartInit
    /\ gestures = 0
    /\ pointerActiveRef = None

CropUnmount ==
    /\ cropFile' = None
    /\ cropSettings' = CropDefaultSettings
    /\ cropPageCount' = 0
    /\ cropBox' = CropDefaultBox
    /\ cropOut' = None
    /\ cropToasts' = <<>>
    /\ cropRun' = None
    /\ cropDisk' = None
    /\ cropOrigin' = None
    /\ isDragging' = FALSE
    /\ isResizing' = None
    /\ dragStart' = DragStartInit
    /\ gestures' = 0
    /\ pointerActiveRef' = None

\* <FileUploader onFilesSelected>: setFile(files[0]); the [file] effect then
\* sets pageCount and settings.endPage to the page count.
CropSelect(f, origin) ==
    /\ route = "/crop-pdf"
    /\ IsNull(cropFile)
    /\ cropFile' = Some(f)
    /\ cropPageCount' = Len(f)
    /\ cropSettings' = [cropSettings EXCEPT !.endPage = Some(Len(f))]
    /\ cropOrigin' = origin
    /\ UNCHANGED <<cropBox, cropOut, cropToasts, cropRun, cropDisk>>
    /\ UNCHANGED cropGesture
    /\ UNCHANGED notCrop

\* The user uploads one of the original documents.
CropFileSelected(f) == CropSelect(f, None)

\* The user uploads the file the tool downloaded last (an export of an
\* original document).
CropFileReselected ==
    /\ ~IsNull(cropDisk)
    /\ IsNull(Val(cropDisk).origin)
    /\ CropSelect(Val(cropDisk).doc,
                  Some([box |-> Val(cropDisk).box,
                        settings |-> Val(cropDisk).settings]))

\* "Change File": setFile(null); setSettings(defaultSettings); resetCrop();
\* the [file] effect sets pageCount to 0.
CropChangeFile ==
    /\ route = "/crop-pdf"
    /\ ~IsNull(cropFile)
    /\ cropFile' = None
    /\ cropSettings' = CropDefaultSettings
    /\ cropPageCount' = 0
    /\ cropBox' = CropDefaultBox
    /\ cropOut' = None
    /\ cropToasts' = <<>>
    /\ cropRun' = None
    /\ cropOrigin' = None
    /\ UNCHANGED cropDisk
    /\ UNCHANGED cropGesture
    /\ UNCHANGED notCrop

CropEditing == route = "/crop-pdf" /\ ~IsNull(cropFile) /\ IsNull(cropRun)

\* The "All" checkbox: startPage 1, endPage pageCount when checked, 1 when not.
CropSetApplyToAll(checked) ==
    /\ CropEditing
    /\ cropSettings' = [applyToAll |-> checked,
                        startPage  |-> 1,
                        endPage    |-> Some(IF checked THEN cropPageCount ELSE 1)]
    /\ UNCHANGED <<cropFile, cropPageCount, cropBox, cropOut, cropToasts,
                   cropRun, cropDisk, cropOrigin>>
    /\ UNCHANGED cropGesture
    /\ UNCHANGED notCrop

\* startPage: Math.max(1, parseInt(e.target.value) || 1)
CropSetStartPage(v) ==
    /\ CropEditing
    /\ ~cropSettings.applyToAll
    /\ cropSettings' = [cropSettings EXCEPT
            !.startPage = Max(1, IF v = 0 THEN 1 ELSE v)]
    /\ UNCHANGED <<cropFile, cropPageCount, cropBox, cropOut, cropToasts,
                   cropRun, cropDisk, cropOrigin>>
    /\ UNCHANGED cropGesture
    /\ UNCHANGED notCrop

\* endPage: Math.min(pageCount, parseInt(e.target.value) || pageCount)
CropSetEndPage(v) ==
    /\ CropEditing
    /\ ~cropSettings.applyToAll
    /\ cropSettings' = [cropSettings EXCEPT
            !.endPage = Some(Min(cropPageCount,
                                 IF v = 0 THEN cropPageCount ELSE v))]
    /\ UNCHANGED <<cropFile, cropPageCount, cropBox, cropOut, cropToasts,
                   cropRun, cropDisk, cropOrigin>>
    /\ UNCHANGED cropGesture
    /\ UNCHANGED notCrop

\* The "Reset" button: resetCrop().
CropResetCrop ==
    /\ CropEditing
    /\ cropBox' = CropDefaultBox
    /\ UNCHANGED <<cropFile, cropSettings, cropPageCount, cropOut, cropToasts,
                   cropRun, cropDisk, cropOrigin>>
    /\ UNCHANGED cropGesture
    /\ UNCHANGED notCrop

\* handleDownload: the saved document is downloaded and the success toast
\* reports endIdx - startIdx + 1 pages; any throw shows the error toast.
CropHandleDownload(throwsAt) ==
    /\ CropEditing
    /\ throwsAt \in ThrowPoints(Len(Val(cropFile)))
    /\ LET out == CropApply(Val(cropFile), cropSettings, cropBox, throwsAt)
           n   == CropEndIdx(cropSettings, Len(Val(cropFile)))
                    - CropStartIdx(cropSettings) + 1
       IN  /\ cropOut' = out
           /\ cropToasts' =
                IF ~IsNull(out)
                THEN << [kind |-> "success",
                         msg |-> "Cropped n page(s) successfully!", n |-> n] >>
                ELSE << [kind |-> "error", msg |-> "Failed to crop PDF", n |-> 0] >>
           /\ cropDisk' =
                IF ~IsNull(out)
                THEN Some([doc |-> Val(out), box |-> cropBox,
                           settings |-> cropSettings, origin |-> cropOrigin])
                ELSE cropDisk
    /\ cropRun' = Some([throwsAt |-> throwsAt])
    /\ UNCHANGED <<cropFile, cropSettings, cropPageCount, cropBox, cropOrigin>>
    /\ UNCHANGED cropGesture
    /\ UNCHANGED notCrop

\* -- the mouse gestures on the crop box -----------------------------------
Handles == {"nw", "ne", "sw", "se", "n", "s", "w", "e"}

\* handleMouseDown(e, action, pageEl): x, y is the pointer in percent of the
\* page element.
CropHandleMouseDown(x, y, action) ==
    /\ CropEditing
    /\ gestures < MaxGestures
    /\ gestures' = gestures + 1
    /\ dragStart' = [x |-> x, y |-> y, boxX |-> cropBox.x, boxY |-> cropBox.y,
                     boxW |-> cropBox.width, boxH |-> cropBox.height]
    /\ IF action = "drag"
       THEN isDragging' = TRUE /\ UNCHANGED isResizing
       ELSE isResizing' = Some(action) /\ UNCHANGED isDragging
    /\ UNCHANGED <<cropFile, cropSettings, cropPageCount, cropBox, cropOut,
                   cropToasts, cropRun, cropDisk, cropOrigin, pointerActiveRef>>
    /\ UNCHANGED notCrop

\* The resize branch of handleMouseMove: the switch over the handle, then
\* the minimum size and the bounds.
CropResized(handle, deltaX, deltaY) ==
    LET west  == handle \in {"nw", "sw", "w"}
        east  == handle \in {"ne", "se", "e"}
        north == handle \in {"nw", "ne", "n"}
        south == handle \in {"sw", "se", "s"}
        w0 == IF west THEN dragStart.boxW - deltaX
              ELSE IF east THEN dragStart.boxW + deltaX ELSE cropBox.width
        h0 == IF north THEN dragStart.boxH - deltaY
              ELSE IF south THEN dragStart.boxH + deltaY ELSE cropBox.height
        x0 == IF west THEN dragStart.boxX + deltaX ELSE cropBox.x
        y0 == IF north THEN dragStart.boxY + deltaY ELSE cropBox.y
        w1 == Max(5, Min(100, w0))
        h1 == Max(5, Min(100, h0))
    IN  Box(Max(0, Min(100 - w1, x0)), Max(0, Min(100 - h1, y0)), w1, h1)

\* handleMouseMove (window mousemove): returns when nothing is dragged or
\* resized, or when no page is rendered.
CropHandleMouseMove(x, y) ==
    /\ CropEditing
    /\ isDragging \/ ~IsNull(isResizing)
    /\ LET deltaX == x - dragStart.x
           deltaY == y - dragStart.y
       IN  cropBox' =
             IF isDragging
             THEN [cropBox EXCEPT
                     !.x = Max(0, Min(100 - cropBox.width, dragStart.boxX + deltaX)),
                     !.y = Max(0, Min(100 - cropBox.height, dragStart.boxY + deltaY))]
             ELSE IF Val(isResizing) \in Handles
                  THEN CropResized(Val(isResizing), deltaX, deltaY)
                  ELSE cropBox
    /\ UNCHANGED <<cropFile, cropSettings, cropPageCount, cropOut, cropToasts,
                   cropRun, cropDisk, cropOrigin, cropGesture>>
    /\ UNCHANGED notCrop

\* handleMouseUp (window mouseup).
CropHandleMouseUp ==
    /\ route = "/crop-pdf"
    /\ isDragging' = FALSE
    /\ isResizing' = None
    /\ UNCHANGED <<cropFile, cropSettings, cropPageCount, cropBox, cropOut,
                   cropToasts, cropRun, cropDisk, cropOrigin, dragStart,
                   gestures, pointerActiveRef>>
    /\ UNCHANGED notCrop

\* -- the touch and pointer gestures on the crop box ------------------------
\* The ids of the touch pointers of the device.
PointerIds == {1, 2}

\* setDragStart({...}); setIsDragging(true) or setIsResizing(action): the
\* tail that handleTouchStart and handlePointerDown share with
\* handleMouseDown.
CropStartGesture(x, y, action) ==
    /\ dragStart' = [x |-> x, y |-> y, boxX |-> cropBox.x, boxY |-> cropBox.y,
                     boxW |-> cropBox.width, boxH |-> cropBox.height]
    /\ IF action = "drag"
       THEN isDragging' = TRUE /\ UNCHANGED isResizing
       ELSE isResizing' = Some(action) /\ UNCHANGED isDragging

\* handleTouchStart(e, action): returns when a pointer gesture is active or
\* no page is rendered.
CropHandleTouchStart(x, y, action) ==
    /\ CropEditing
    /\ IsNull(pointerActiveRef)
    /\ gestures < MaxTouches
    /\ gestures' = gestures + 1
    /\ CropStartGesture(x, y, action)
    /\ UNCHANGED <<cropFile, cropSettings, cropPageCount, cropBox, cropOut,
                   cropToasts, cropRun, cropDisk, cropOrigin, pointerActiveRef>>
    /\ UNCHANGED notCrop

\* handlePointerDown(e, action) of a pointer of type 'touch':
\* pointerActiveRef.current = { active: true, pointerId: e.pointerId }.
CropHandlePointerDown(id, x, y, action) ==
    /\ CropEditing
    /\ gestures < MaxTouches
    /\ gestures' = gestures + 1
    /\ pointerActiveRef' = Some(id)
    /\ CropStartGesture(x, y, action)
    /\ UNCHANGED <<cropFile, cropSettings, cropPageCount, cropBox, cropOut,
                   cropToasts, cropRun, cropDisk, cropOrigin>>
    /\ UNCHANGED notCrop

\* The resize branch of handleTouchMove and of handlePointerMove: the box
\* starts from the one in dragStart, then the switch over the handle, the
\* minimum size and the bounds.
CropTouchResized(handle, deltaX, deltaY) ==
    LET west  == handle \in {"nw", "sw", "w"}
        east  == handle \in {"ne", "se", "e"}
        north == handle \in {"nw", "ne", "n"}
        south == handle \in {"sw", "se", "s"}
        w0 == IF west THEN dragStart.boxW - deltaX
              ELSE IF east THEN dragStart.boxW + deltaX ELSE dragStart.boxW
        h0 == IF north THEN dragStart.boxH - deltaY
              ELSE IF south THEN dragStart.boxH + deltaY ELSE dragStart.boxH
        x0 == IF west THEN dragStart.boxX + deltaX ELSE dragStart.boxX
        y0 == IF north THEN dragStart.boxY + deltaY ELSE dragStart.boxY
        w1 == Max(5, Min(100, w0))
        h1 == Max(5, Min(100, h0))
    IN  Box(Max(0, Min(100 - w1, x0)), Max(0, Min(100 - h1, y0)), w1, h1)

\* The body handleTouchMove and handlePointerMove share: a drag keeps the
\* width and height of the current box and constrains x and y with the
\* width and height in dragStart.
CropTouchMoved(x, y) ==
    LET deltaX == x - dragStart.x
        deltaY == y - dragStart.y
    IN  IF isDragging
        THEN [cropBox EXCEPT
                !.x = Max(0, Min(100 - dragStart.boxW, dragStart.boxX + deltaX)),
                !.y = Max(0, Min(100 - dragStart.boxH, dragStart.boxY + deltaY))]
        ELSE CropTouchResized(Val(isResizing), deltaX, deltaY)

\* handleWindowTouchMove -> handleTouchMove: returns when nothing is dragged
\* or resized, when a pointer gesture is active, or when no page is rendered.
CropHandleTouchMove(x, y) ==
    /\ CropEditing
    /\ isDragging \/ ~IsNull(isResizing)
    /\ IsNull(pointerActiveRef)
    /\ cropBox' = CropTouchMoved(x, y)
    /\ UNCHANGED <<cropFile, cropSettings, cropPageCount, cropOut, cropToasts,
                   cropRun, cropDisk, cropOrigin, cropGesture>>
    /\ UNCHANGED notCrop

\* handleWindowPointerMove -> handlePointerMove, for the touch pointer that
\* started the gesture.
CropHandlePointerMove(id, x, y) ==
    /\ CropEditing
    /\ isDragging \/ ~IsNull(isResizing)
    /\ pointerActiveRef = Some(id)
    /\ cropBox' = CropTouchMoved(x, y)
    /\ UNCHANGED <<cropFile, cropSettings, cropPageCount, cropOut, cropToasts,
                   cropRun, cropDisk, cropOrigin, cropGesture>>
    /\ UNCHANGED notCrop

\* handleWindowTouchEnd -> handleTouchEnd (touchend, touchcancel).
CropHandleTouchEnd ==
    /\ route = "/crop-pdf"
    /\ isDragging \/ ~IsNull(isResizing)
    /\ IsNull(pointerActiveRef)
    /\ isDragging' = FALSE
    /\ isResizing' = None
    /\ UNCHANGED <<cropFile, cropSettings, cropPageCount, cropBox, cropOut,
                   cropToasts, cropRun, cropDisk, cropOrigin, dragStart,
                   gestures, pointerActiveRef>>
    /\ UNCHANGED notCrop

\* handleWindowPointerUp (pointerup, pointercancel): the ref is reset, then
\* handleTouchEnd clears the gesture.
CropHandlePointerUp(id) ==
    /\ route = "/crop-pdf"
    /\ isDragging \/ ~IsNull(isResizing)
    /\ pointerActiveRef = Some(id)
    /\ pointerActiveRef' = None
    /\ isDragging' = FALSE
    /\ isResizing' = None
    /\ UNCHANGED <<cropFile, cropSettings, cropPageCount, cropBox, cropOut,
                   cropToasts, cropRun, cropDisk, cropOrigin, dragStart,
                   gestures>>
    /\ UNCHANGED notCrop

CropPageInputs == (-1)..(MaxCropPages + 1)

CropNext ==
    \/ \E f \in CropDocs : CropFileSelected(f)
    \/ CropFileReselected
    \/ CropChangeFile
    \/ \E b \in BOOLEAN : CropSetApplyToAll(b)
    \/ \E v \in CropPageInputs : CropSetStartPage(v)
    \/ \E v \in CropPageInputs : CropSetEndPage(v)
    \/ CropResetCrop
    \/ \E t \in ThrowPoints(MaxCropPages) : CropHandleDownload(t)

\* ============================================================ API routes
\* An uploaded file: its content, and the user password it is encrypted
\* with (None when it is not encrypted).
ApiFile(content, password) == [content |-> content, password |-> password]

ApiFiles == {ApiFile("doc", None), ApiFile("doc", Some("secret"))}

\* formData.get('password'): null when the field is missing, else a string.
ApiPasswords == {None, Some(""), Some("secret"), Some("wrong")}

\* JavaScript truthiness of a `string | null`.
TruthyStr(o) == ~IsNull(o) /\ Val(o) # ""

\* The messages of the errors muhammara throws, by the words the unlock
\* route looks for in them ('password', 'decrypt', 'encrypted',
\* 'unable to read'): one that has none of them (muhammara's "unable to
\* append page, make sure it's fine"), and one that names the password.
MsgAppend == [text |-> "unable to append page, make sure it's fine",
              words |-> {}]
MsgPassword == [text |-> "wrong password", words |-> {"password"}]
MuhammaraMessages == {MsgAppend, MsgPassword}

\* pdfWriter.appendPDFPagesFromPDF(inputPath, appendOptions): the pages are
\* read when the file is not encrypted or the password is its password.
CanDecrypt(file, password) ==
    \/ IsNull(file.password)
    \/ TruthyStr(password) /\ password = file.password

\* errorMessage.includes('password') || ... || includes('unable to read')
IsPasswordError(msg) ==
    msg.words \cap {"password", "decrypt", "encrypted", "unable to read"} # {}

ApiResponse(req, api, request, status, body) ==
    [req |-> req, api |-> api, request |-> request, status |-> status,
     body |-> body]

ApiInit ==
    /\ apiTmp = {}
    /\ apiResponses = <<>>
    /\ apiRunning = {}
    /\ apiCount = 0

TmpInput(req) == [req |-> req, kind |-> "input"]
TmpOutput(req) == [req |-> req, kind |-> "output"]

\* finally { if (inputPath && fs.existsSync(inputPath)) fs.unlinkSync(...);
\*           if (outputPath && fs.existsSync(outputPath)) fs.unlinkSync(...) }
\* (unlinkSync of an existing file of the server's own is taken to succeed.)
ApiCleanup(tmp, req) == tmp \ {TmpInput(req), TmpOutput(req)}

\* unlock-pdf POST.  msg is the message of the error muhammara throws when
\* it cannot read the pages.
UnlockPOST(file, password, msg) ==
    /\ apiCount < MaxRequests
    /\ apiCount' = apiCount + 1
    /\ LET req == apiCount + 1
           request == [file |-> file, password |-> password]
           respond(status, body) ==
               apiResponses' = Append(apiResponses,
                   ApiResponse(req, "unlock", request, status, body))
       IN  IF IsNull(file)
           THEN respond(400, None) /\ UNCHANGED apiTmp
           ELSE LET written == apiTmp \cup {TmpInput(req), TmpOutput(req)}
                IN  /\ apiTmp' = ApiCleanup(written, req)
                    /\ IF CanDecrypt(Val(file), password)
                       THEN respond(200, Some(ApiFile(Val(file).content, None)))
                       ELSE IF IsPasswordError(msg)
                            THEN respond(401, None)
                            ELSE respond(500, None)
    /\ UNCHANGED apiRunning
    /\ UNCHANGED notApi

\* protect-pdf POST.  encryptThrows: recipe.encrypt / endPDF throws;
\* outputMade: the recipe had created the output file when it threw.
ProtectPOST(file, password, encryptThrows, outputMade) ==
    /\ apiCount < MaxRequests
    /\ apiCount' = apiCount + 1
    /\ LET req == apiCount + 1
           request == [file |-> file, password |-> password]
           respond(status, body) ==
               apiResponses' = Append(apiResponses,
                   ApiResponse(req, "protect", request, status, body))
       IN  IF IsNull(file) \/ ~TruthyStr(password)
           THEN respond(400, None) /\ UNCHANGED apiTmp
           ELSE IF encryptThrows
                THEN /\ apiTmp' = apiTmp \cup {TmpInput(req)}
                                     \cup (IF outputMade THEN {TmpOutput(req)}
                                           ELSE {})
                     /\ respond(500, None)
                ELSE /\ apiTmp' = (apiTmp \cup {TmpInput(req), TmpOutput(req)})
                                     \ {TmpInput(req), TmpOutput(req)}
                     /\ respond(200, Some(ApiFile(Val(file).content, password)))
    /\ UNCHANGED apiRunning
    /\ UNCHANGED notApi

\* formData.get('level') || 'recommended'
CompressLevels == {None, Some("extreme"), Some("less"), Some("best")}
LevelOf(level) == IF TruthyStr(level) THEN Val(level) ELSE "recommended"

\* compress-pdf POST up to `await execAsync(command)`: the validation, the
\* input file, the Ghostscript process started.
CompressPOST(file, level) ==
    /\ apiCount < MaxRequests
    /\ apiCount' = apiCount + 1
    /\ LET req == apiCount + 1
           request == [file |-> file, level |-> LevelOf(level)]
       IN  IF IsNull(file)
              \/ LevelOf(level) \notin {"extreme", "recommended", "less"}
           THEN /\ apiResponses' = Append(apiResponses,
                       ApiResponse(req, "compress", request, 400, None))
                /\ UNCHANGED <<apiTmp, apiRunning>>
           ELSE /\ apiTmp' = apiTmp \cup {TmpInput(req)}
                /\ apiRunning' = apiRunning \cup {[req |-> req, request |-> request]}
                /\ UNCHANGED apiResponses
    /\ UNCHANGED notApi

\* The outcomes of the Ghostscript process: it wrote the output file, it
\* ended without one, it was not found (ENOENT), it failed otherwise.
GsOutcomes == {"written", "no output", "ENOENT", "failed"}

\* compress-pdf POST after `await execAsync(command)`.
CompressExecReturns(outcome) ==
    \E job \in apiRunning :
        /\ apiRunning' = apiRunning \ {job}
        /\ apiTmp' = ApiCleanup(apiTmp, job.req)
        /\ apiResponses' = Append(apiResponses,
              IF outcome = "written"
              THEN ApiResponse(job.req, "compress", job.request, 200,
                               Some(Val(job.request.file)))
              ELSE ApiResponse(job.req, "compress", job.request, 500, None))
        /\ UNCHANGED apiCount
        /\ UNCHANGED notApi

\* ============================================================ navigation
Tools ==
    {"/watermark-pdf", "/page-numbers", "/rotate-pdf", "/organize-pdf",
     "/crop-pdf"}

Init ==
    /\ route = "/"
    /\ WmInit
    /\ PnInit
    /\ RotInit
    /\ OrgInit
    /\ CropInit
    /\ ApiInit

\* A tool card of the home page: <Link href={tool.href}>.  The tool's
\* component mounts with its initial state.
OpenTool(t) ==
    /\ route = "/"
    /\ route' = t
    /\ UNCHANGED <<wmVars, pnVars, rotVars, orgVars, cropVars, apiVars>>

\* The logo of the navigation bar: <Link href="/">.  The mounted tool
\* unmounts and its state is gone.
GoHome ==
    /\ route # "/"
    /\ route' = "/"
    /\ WmUnmount
    /\ PnUnmount
    /\ RotUnmount
    /\ OrgUnmount
    /\ CropUnmount
    /\ UNCHANGED apiVars

\* The live previews of the watermark tool and of the page-number tool: the
\* user selects files and edits settings while preview timeouts fire and the
\* computations they start return, in any order.
PreviewDocs == {MkDoc(1, 0), MkDoc(2, 1)}
PreviewImages == {Some([type |-> "image/png", bytes |-> "png"])}

\* ======================================================= specifications
NextPreview ==
    \/ \E t \in {"/watermark-pdf", "/page-numbers"} : OpenTool(t)
    \/ GoHome
    \/ \E f \in PreviewDocs : WmFileSelected(f)
    \/ WmChangeFile
    \/ \E t \in {"text", "image"} : WmSetType(t)
    \/ \E f \in PreviewImages : WmSetImageFile(f)
    \/ \E b \in BOOLEAN : WmSetTiled(b)
    \/ WmPreviewTimerFires
    \/ \E t \in ThrowPoints(1) : WmPreviewCompletes(t)
    \/ \E f \in PreviewDocs : PnFileSelected(f)
    \/ PnChangeFile
    \/ \E f \in Formats : PnSetFormat(f)
    \/ \E v \in 1..2 : PnSetFromPage(v)
    \/ \E v \in 1..2 : PnSetToPage(v)
    \/ PnPreviewTimerFires
    \/ \E t \in ThrowPoints(2) : PnPreviewCompletes(t)

SpecPreview == Init /\ [][NextPreview]_vars

\* The live preview of how the mark is drawn: the user changes the look,
\* the layer and the range of a text watermark and of the page numbers
\* while previews are computed.
NextPreviewLook ==
    \/ \E t \in {"/watermark-pdf", "/page-numbers"} : OpenTool(t)
    \/ GoHome
    \/ \E f \in PreviewDocs : WmFileSelected(f)
    \/ WmSetTiled(TRUE)
    \/ WmSetLayer("under")
    \/ WmSetOpacity(10)
    \/ WmSetRotation(0)
    \/ WmSetStartPage(2)
    \/ WmPreviewTimerFires
    \/ WmPreviewCompletes(ThrowNone)
    \/ \E f \in PreviewDocs : PnFileSelected(f)
    \/ PnSetFormat("Page n of total")
    \/ PnSetPosition("tr")
    \/ PnSetStartFrom(5)
    \/ \E v \in 1..2 : PnSetFromPage(v)
    \/ PnSetToPage(1)
    \/ PnPreviewTimerFires
    \/ PnPreviewCompletes(ThrowNone)

SpecPreviewLook == Init /\ [][NextPreviewLook]_vars

\* The placement of the marks: the user sets position, tiling, text, sizes
\* and scale in the watermark tool and in the page-number tool and exports.
PlacementDocs == {MkDoc(1, k) : k \in 0..(Len(PageKinds) - 1)}
PlacementImages ==
    {Some([type |-> "image/png", bytes |-> "png"]),
     Some([type |-> "image/jpeg", bytes |-> "jpg"])}

NextPlacement ==
    \/ \E t \in {"/watermark-pdf", "/page-numbers"} : OpenTool(t)
    \/ GoHome
    \/ \E f \in PlacementDocs : WmFileSelected(f)
    \/ WmChangeFile
    \/ \E t \in {"text", "image"} : WmSetType(t)
    \/ \E f \in PlacementImages : WmSetImageFile(f)
    \/ \E b \in BOOLEAN : WmSetTiled(b)
    \/ \E pos \in Positions : WmSetPosition(pos)
    \/ \E t \in Texts : WmSetText(t)
    \/ \E v \in {12, 48} : WmSetTextSize(v)
    \/ \E v \in {5, 20} : WmSetImageScale(v)
    \/ WmHandleDownload(ThrowNone, FALSE)
    \/ \E f \in PlacementDocs : PnFileSelected(f)
    \/ PnChangeFile
    \/ \E pos \in PnPositions : PnSetPosition(pos)
    \/ \E f \in Formats : PnSetFormat(f)
    \/ \E v \in {12, 400} : PnSetFontSize(v)
    \/ \E v \in {20, 50} : PnSetMargin(v)
    \/ PnHandleDownload(ThrowNone, FALSE)

SpecPlacement == Init /\ [][NextPlacement]_vars

\* A session that uses the watermark tool.
NextWatermark ==
    \/ OpenTool("/watermark-pdf")
    \/ GoHome
    \/ WmNext

SpecWatermark == Init /\ [][NextWatermark]_vars

\* A session that uses the page-number tool.
NextPageNumbers ==
    \/ OpenTool("/page-numbers")
    \/ GoHome
    \/ PnNext

SpecPageNumbers == Init /\ [][NextPageNumbers]_vars

\* The page-number tool with the document load of the [file] effect as a
\* step of its own, so that the fields can be edited while it is pending.
LoadDocs == {MkDoc(n, 0) : n \in 1..MaxPages}

NextPageLoad ==
    \/ OpenTool("/page-numbers")
    \/ \E f \in LoadDocs : PnFilePicked(f)
    \/ \E loadThrows \in BOOLEAN : PnLoadDocCompletes(loadThrows)
    \/ \E v \in 0..MaxPages : PnSetFromPage(v)
    \/ \E v \in 0..MaxPages : PnSetToPage(v)
    \/ PnChangeFile
    \/ PnHandleDownload(ThrowNone, FALSE)

SpecPageLoad == Init /\ [][NextPageLoad]_vars

\* A session that uses the watermark tool and the page-number tool.
NextApply ==
    \/ \E t \in {"/watermark-pdf", "/page-numbers"} : OpenTool(t)
    \/ GoHome
    \/ WmNext
    \/ PnNext

SpecApply == Init /\ [][NextApply]_vars

\* A session that uses the rotate tool and the organize tool.
NextRotate ==
    \/ \E t \in {"/rotate-pdf", "/organize-pdf"} : OpenTool(t)
    \/ GoHome
    \/ RotNext
    \/ OrgNext

SpecRotate == Init /\ [][NextRotate]_vars

\* A session that uses the crop tool.
NextCrop ==
    \/ OpenTool("/crop-pdf")
    \/ GoHome
    \/ CropNext

SpecCrop == Init /\ [][NextCrop]_vars

\* A session that shapes the crop box with the mouse and exports.  The
\* pointer positions are in percent of the page; 120 is off the page.  The
\* mouse is pressed at most MaxGestures times.
Pointers == {<<0, 0>>, <<37, 60>>, <<120, 37>>}
CropBoxDocs == {CropDoc(MaxCropPages, 0)}

NextCropBox ==
    \/ OpenTool("/crop-pdf")
    \/ GoHome
    \/ \E f \in CropBoxDocs : CropFileSelected(f)
    \/ \E p \in Pointers, a \in {"drag"} \cup Handles :
          CropHandleMouseDown(p[1], p[2], a)
    \/ \E p \in Pointers : CropHandleMouseMove(p[1], p[2])
    \/ CropHandleMouseUp
    \/ CropResetCrop
    \/ CropSetApplyToAll(FALSE)
    \/ \E v \in 1..MaxCropPages : CropSetStartPage(v)
    \/ CropHandleDownload(ThrowNone)

SpecCropBox == Init /\ [][NextCropBox]_vars

\* Uploads with degenerate pages: a MediaBox of width 0, or with its corners
\* the other way round so that getSize() reports a negative height.
GeometryPages == {CropPage(50000, 70000), CropPage(0, 70000), CropPage(50000, -70000)}
GeometryDocs ==
    {<<p>> : p \in GeometryPages} \cup {<<p, q>> : p \in GeometryPages, q \in GeometryPages}

NextCropGeometry ==
    \/ OpenTool("/crop-pdf")
    \/ \E f \in GeometryDocs : CropFileSelected(f)
    \/ CropChangeFile
    \/ \E checked \in BOOLEAN : CropSetApplyToAll(checked)
    \/ \E v \in 1..MaxCropPages : CropSetStartPage(v)
    \/ \E v \in 1..MaxCropPages : CropSetEndPage(v)
    \/ CropHandleDownload(ThrowNone)

SpecCropGeometry == Init /\ [][NextCropGeometry]_vars

\* A session that shapes the crop box with the mouse and with a finger, on a
\* browser that reports a finger as touch events or as pointer events.
TouchActions == {"drag", "e", "s", "se", "nw"}

NextCropTouch ==
    \/ OpenTool("/crop-pdf")
    \/ \E f \in CropBoxDocs : CropFileSelected(f)
    \/ \E p \in Pointers, a \in TouchActions : CropHandleMouseDown(p[1], p[2], a)
    \/ \E p \in Pointers : CropHandleMouseMove(p[1], p[2])
    \/ CropHandleMouseUp
    \/ \E p \in Pointers, a \in TouchActions : CropHandleTouchStart(p[1], p[2], a)
    \/ \E p \in Pointers : CropHandleTouchMove(p[1], p[2])
    \/ CropHandleTouchEnd
    \/ \E id \in PointerIds, p \in Pointers, a \in TouchActions :
          CropHandlePointerDown(id, p[1], p[2], a)
    \/ \E id \in PointerIds, p \in Pointers : CropHandlePointerMove(id, p[1], p[2])
    \/ \E id \in PointerIds : CropHandlePointerUp(id)
    \/ CropResetCrop
    \/ CropChangeFile

SpecCropTouch == Init /\ [][NextCropTouch]_vars

\* The requests the server receives.
NextApi ==
    \/ \E f \in {None} \cup {Some(x) : x \in ApiFiles}, pw \in ApiPasswords,
          msg \in MuhammaraMessages : UnlockPOST(f, pw, msg)
    \/ \E f \in {None} \cup {Some(x) : x \in ApiFiles},
          pw \in {None, Some(""), Some("secret")},
          t \in BOOLEAN, o \in BOOLEAN : ProtectPOST(f, pw, t, o)
    \/ \E f \in {None} \cup {Some(x) : x \in ApiFiles}, l \in CompressLevels :
          CompressPOST(f, l)
    \/ \E o \in GsOutcomes : CompressExecReturns(o)

SpecApi == Init /\ [][NextApi]_vars

\* The whole program: the handlers of the five tools and the API routes.
Next ==
    \/ \E t \in Tools : OpenTool(t)
    \/ GoHome
    \/ WmNext
    \/ PnNext
    \/ RotNext
    \/ OrgNext
    \/ CropNext
    \/ NextCropBox
    \/ NextCropTouch
    \/ NextPageLoad
    \/ NextApi

Spec == Init /\ [][Next]_vars

\* ================================================================ claims
\* Vocabulary of the claims.

\* The range a claim resolves {from, to} to on a document of total pages:
\* the 0-based pages start..end, ascending, empty when end < start.
ClaimRange(from, to, total) ==
    LET start == Max(0, from - 1)
        end   == IF ~IsNull(to) THEN Min(total - 1, Val(to) - 1) ELSE total - 1
    IN  IF end < start THEN <<>>
        ELSE [i \in 1..(end - start + 1) |-> start + (i - 1)]

\* The pages of an output document that carry the stream of the apply.
Marked(out) == {p \in 0..(Len(out) - 1) : NewStream \in Range(out[p + 1].items)}

\* The pages of an output document the apply drew something on.
Drawn(out) == {p \in 0..(Len(out) - 1) : out[p + 1].ops # <<>>}

WmExported == route = "/watermark-pdf" /\ ~IsNull(wmRun)
PnExported == route = "/page-numbers" /\ ~IsNull(pnRun)

WmSucceeded == \E i \in 1..Len(wmToasts) : wmToasts[i].kind = "success"
PnSucceeded == \E i \in 1..Len(pnToasts) : pnToasts[i].kind = "success"

\* C1 (as claimed): the pages a full apply processes are exactly the claimed
\* range start..end of its {from, to}, in ascending order, for the watermark
\* tool and for the page-number tool.
C1_RangeAsClaimed ==
    /\ WmExported =>
         WmPagesToProcess(wmSettings, Len(Val(wmFile)), FALSE)
            = ClaimRange(wmSettings.startPage, wmSettings.endPage,
                         Len(Val(wmFile)))
    /\ PnExported =>
         SelectSeq(PnPagesToProcess(pnSettings, Len(Val(pnFile)), FALSE),
                   LAMBDA p : p < Len(Val(pnFile)))
            = ClaimRange(pnSettings.fromPage, pnSettings.toPage,
                         Len(Val(pnFile)))

\* C2: in the document a full page-number apply returns, the numbered pages
\* carry consecutive numbers that start at startFrom on the first page of
\* the range, and the T of the 'of T' formats is the page count of the
\* whole document.
C2_NumberingSequence ==
    (PnExported /\ ~IsNull(pnOut)) =>
        LET out   == Val(pnOut)
            total == Len(Val(pnFile))
        IN  /\ Len(out) = total
            /\ \A p \in Drawn(out) :
                 /\ Len(out[p + 1].ops) = 1
                 /\ out[p + 1].ops[1].text.n
                       = pnSettings.startFrom
                            + (p - Max(0, pnSettings.fromPage - 1))
                 /\ (p - 1 \in Drawn(out)) =>
                       out[p + 1].ops[1].text.n = out[p].ops[1].text.n + 1
                 /\ (p - 1 \notin Drawn(out)) =>
                       out[p + 1].ops[1].text.n = pnSettings.startFrom
                 /\ (pnSettings.format \in {"n of total", "Page n of total"})
                       => out[p + 1].ops[1].text.total = Some(total)

\* C2 witness: a sub-range of two pages of a three-page document, not
\* starting at the first page, numbered from 5 in a format that shows T.
C2_Witness ==
    /\ PnExported /\ ~IsNull(pnOut)
    /\ Len(Val(pnFile)) = 3
    /\ Drawn(Val(pnOut)) = {1, 2}
    /\ pnSettings.startFrom = 5
    /\ pnSettings.format = "Page n of total"

\* C5: on every page a watermark apply drew on, the stream of that draw is
\* the first entry of the content list when layer is 'under' and the last
\* when it is 'over', and the streams of the uploaded page keep their order.
C5_UnderLayering ==
    (WmExported /\ ~IsNull(wmOut)) =>
        \A p \in Drawn(Val(wmOut)) :
            LET before == Val(wmFile)[p + 1].items
                after  == Val(wmOut)[p + 1].items
            IN  IF wmSettings.layer = "under"
                THEN after = <<NewStream>> \o before
                ELSE after = before \o <<NewStream>>

\* C5 witness: an 'under' export drew on a page that had three streams.
C5_Witness ==
    /\ WmExported /\ ~IsNull(wmOut)
    /\ wmSettings.layer = "under"
    /\ \E p \in Drawn(Val(wmOut)) : Len(Val(wmFile)[p + 1].items) = 3

\* C8: an apply in which the processing of a target page throws returns no
\* document, and a document an apply returns has its mark on all of the
\* pages the apply processes or on none of them.
C8_AllOrNothing ==
    /\ WmExported =>
         LET n == Len(Val(wmFile))
             T == Range(WmPagesToProcess(wmSettings, n, FALSE))
         IN  /\ (\E p \in T : Val(wmRun).throwsAt = ThrowAtPage(p))
                    => IsNull(wmOut)
             /\ ~IsNull(wmOut) =>
                    \/ T \subseteq Marked(Val(wmOut))
                    \/ T \cap Marked(Val(wmOut)) = {}
    /\ PnExported =>
         LET n == Len(Val(pnFile))
             T == Range(PnPagesToProcess(pnSettings, n, FALSE)) \cap 0..(n - 1)
         IN  /\ (\E p \in T : Val(pnRun).throwsAt = ThrowAtPage(p))
                    => IsNull(pnOut)
             /\ ~IsNull(pnOut) => T \subseteq Marked(Val(pnOut))

\* C8 witness: the second of three target pages threw, after the first one
\* had been drawn on.
C8_Witness ==
    /\ WmExported
    /\ wmSettings.type = "text"
    /\ Len(WmPagesToProcess(wmSettings, Len(Val(wmFile)), FALSE)) = 3
    /\ Val(wmRun).throwsAt = ThrowAtPage(1)

\* C9 (as claimed): a watermark export that shows the success toast has
\* drawn the mark on every target page.
C9_SuccessMeansDrawn ==
    (WmExported /\ WmSucceeded) =>
        /\ ~IsNull(wmOut)
        /\ WmTargetIndices(wmSettings, Len(Val(wmFile)))
               \subseteq Drawn(Val(wmOut))

\* C10 (as claimed): an export whose apply returned no document shows
\* exactly one toast, an error.
C10_FailureShowsOneError ==
    /\ (WmExported /\ IsNull(wmOut)) =>
          (Len(wmToasts) = 1 /\ wmToasts[1].kind = "error")
    /\ (PnExported /\ IsNull(pnOut)) =>
          (Len(pnToasts) = 1 /\ pnToasts[1].kind = "error")

\* C3 (as claimed): the rotation a save writes to a page is
\* (original + sum of the deltas) mod 360, a value in [0, 360), in the rotate
\* tool and in the organize tool.
C3_RotationNormalized ==
    /\ (route = "/rotate-pdf" /\ ~IsNull(rotSaved)) =>
          \A i \in 1..Len(Val(rotSaved)) :
              /\ Val(rotSaved)[i] = (Val(rotFile)[i] + rotSum[i]) % 360
              /\ Val(rotSaved)[i] >= 0 /\ Val(rotSaved)[i] < 360
    /\ (route = "/organize-pdf" /\ ~IsNull(orgSaved)) =>
          \A j \in 1..Len(Val(orgSaved)) :
              LET q == Val(orgSaved)[j]
              IN  /\ q.rotate = (Val(orgFile)[q.pageIndex + 1]
                                    + orgSum[q.pageIndex + 1]) % 360
                  /\ q.rotate >= 0 /\ q.rotate < 360

\* C4 (as claimed): when a document that was exported by the crop tool is
\* uploaded again and cropped with the same box and the same range, every
\* target page keeps the media box and the crop box the first crop gave it.
C4_CropIdempotent ==
    ( /\ route = "/crop-pdf"
      /\ ~IsNull(cropRun) /\ ~IsNull(cropOut)
      /\ cropOrigin = Some([box |-> cropBox, settings |-> cropSettings]) )
    => \A i \in CropStartIdx(cropSettings)
                  ..CropEndIdx(cropSettings, Len(Val(cropFile))) :
          /\ Val(cropOut)[i + 1].mediaBox = Val(cropFile)[i + 1].mediaBox
          /\ Val(cropOut)[i + 1].cropBox = Val(cropFile)[i + 1].cropBox


\* -- the live preview -----------------------------------------------------
\* The displayed preview is the one the latest request produced: the request
\* of the file and settings now on screen.
WmPreviewIsLatest ==
    /\ ~IsNull(wmFile)
    /\ ~IsNull(wmPreviewFile)
    /\ Val(wmPreviewFile).req = [file |-> Val(wmFile), settings |-> wmSettings]

PnPreviewIsLatest ==
    /\ ~IsNull(pnFile)
    /\ ~IsNull(pnPreviewFile)
    /\ Val(pnPreviewFile).req = [file |-> Val(pnFile), settings |-> pnSettings]

\* Nothing of the preview is pending: no timeout is set, no computation is in
\* flight, and none has failed.
WmPreviewSettled ==
    /\ route = "/watermark-pdf"
    /\ ~IsNull(wmFile)
    /\ IsNull(wmTimer) /\ wmInflight = {} /\ ~wmPreviewFailed

PnPreviewSettled ==
    /\ route = "/page-numbers"
    /\ ~IsNull(pnFile)
    /\ IsNull(pnTimer) /\ pnInflight = {} /\ ~pnPreviewFailed

\* C6 (as claimed): latest-wins preview.  While a file is loaded, every step
\* that puts a document into the displayed preview puts there the result of
\* the most recent request; the result of an earlier request, overtaken by a
\* change of the settings while it was in flight, never reaches the
\* displayed preview.
C6_LatestWins ==
    [][ /\ (/\ wmPreviewFile' # wmPreviewFile
            /\ ~IsNull(wmPreviewFile')
            /\ ~IsNull(wmFile'))
            => Val(wmPreviewFile').req =
                  [file |-> Val(wmFile'), settings |-> wmSettings']
        /\ (/\ pnPreviewFile' # pnPreviewFile
            /\ ~IsNull(pnPreviewFile')
            /\ ~IsNull(pnFile'))
            => Val(pnPreviewFile').req =
                  [file |-> Val(pnFile'), settings |-> pnSettings'] ]_vars

\* C7 (as claimed): preview convergence.  Once the user has stopped changing
\* the settings and every preview computation that was started has returned
\* successfully, the displayed preview is the one computed from the latest
\* settings.
C7_SettledPreviewIsLatest ==
    /\ WmPreviewSettled => WmPreviewIsLatest
    /\ PnPreviewSettled => PnPreviewIsLatest


\* -- placement --------------------------------------------------------------
\* The pages of the exported document with the marks drawn on them: the
\* draw calls of a page, its size, and the margin of the tool.
WmPlaced ==
    IF WmExported /\ ~IsNull(wmOut)
    THEN {[ops |-> Val(wmOut)[p + 1].ops, size |-> Val(wmOut)[p + 1].size,
           margin |-> Pt(WmMargin)] : p \in Drawn(Val(wmOut))}
    ELSE {}

PnPlaced ==
    IF PnExported /\ ~IsNull(pnOut)
    THEN {[ops |-> Val(pnOut)[p + 1].ops, size |-> Val(pnOut)[p + 1].size,
           margin |-> Pt(pnSettings.margin)] : p \in Drawn(Val(pnOut))}
    ELSE {}

\* The pages with a mark at a fixed position.
Anchored ==
    (IF wmSettings.isTiled THEN {} ELSE WmPlaced) \cup PnPlaced

FitsX(o, pg) == o.width <= pg.size.width - 2 * pg.margin
FitsY(o, pg) == o.height <= pg.size.height - 2 * pg.margin

\* C11: an element at a fixed position whose width and height are at most
\* the page size less two margins lies, origin plus size, within
\* [margin, pageSize - margin] on both axes, for every anchor of the
\* watermark tool and of the page-number tool.
C11_AnchorBounds ==
    \A pg \in Anchored : \A k \in 1..Len(pg.ops) :
        LET o == pg.ops[k]
        IN  (FitsX(o, pg) /\ FitsY(o, pg)) =>
                /\ o.x >= pg.margin
                /\ o.x + o.width <= pg.size.width - pg.margin
                /\ o.y >= pg.margin
                /\ o.y + o.height <= pg.size.height - pg.margin

\* C11 witness: a text that fits was exported at the top right corner.
C11_Witness ==
    /\ wmSettings.position = "tr" /\ wmSettings.type = "text"
    /\ \E pg \in Anchored \cap WmPlaced :
          FitsX(pg.ops[1], pg) /\ FitsY(pg.ops[1], pg)

\* C12 (as claimed): on an axis on which the element is larger than the page
\* less two margins, the origin of every anchor is exactly the margin.
C12_OversizedClampToMargin ==
    \A pg \in Anchored : \A k \in 1..Len(pg.ops) :
        LET o == pg.ops[k]
        IN  /\ ~FitsX(o, pg) => o.x = pg.margin
            /\ ~FitsY(o, pg) => o.y = pg.margin

\* C12 (amended): an oversized element is not clamped.  On an axis on which
\* it is larger than the page less two margins its origin is the margin for
\* the left and bottom anchors, and the centred or far-edge value, which is
\* below the margin, for the others.
C12_OversizedNotClamped ==
    /\ \A pg \in Anchored \cap WmPlaced : \A k \in 1..Len(pg.ops) :
          LET o == pg.ops[k]
              pos == wmSettings.position
          IN  /\ ~FitsX(o, pg) =>
                    /\ pos \in {"tl", "cl", "bl"} => o.x = pg.margin
                    /\ pos \in {"tc", "cc", "bc"} =>
                          (2 * o.x = pg.size.width - o.width /\ o.x < pg.margin)
                    /\ pos \in {"tr", "cr", "br"} =>
                          (o.x = pg.size.width - o.width - pg.margin
                           /\ o.x < pg.margin)
              /\ ~FitsY(o, pg) =>
                    /\ pos \in {"bl", "bc", "br"} => o.y = pg.margin
                    /\ pos \in {"cl", "cc", "cr"} =>
                          (2 * o.y = pg.size.height - o.height /\ o.y < pg.margin)
                    /\ pos \in {"tl", "tc", "tr"} =>
                          (o.y = pg.size.height - o.height - pg.margin
                           /\ o.y < pg.margin)
    /\ \A pg \in PnPlaced : \A k \in 1..Len(pg.ops) :
          LET o == pg.ops[k]
              pos == pnSettings.position
          IN  /\ ~FitsX(o, pg) =>
                    /\ pos \in {"tl", "bl"} => o.x = pg.margin
                    /\ pos \in {"tc", "bc"} =>
                          (2 * o.x = pg.size.width - o.width /\ o.x < pg.margin)
                    /\ pos \in {"tr", "br"} =>
                          (o.x = pg.size.width - o.width - pg.margin
                           /\ o.x < pg.margin)
              /\ ~FitsY(o, pg) =>
                    /\ pos \in {"bl", "bc", "br"} => o.y = pg.margin
                    /\ pos \in {"tl", "tc", "tr"} =>
                          (o.y = pg.size.height - o.height - pg.margin
                           /\ o.y < pg.margin)

\* C12 witness: a text wider and higher than the page allows was exported
\* centred.
C12_Witness ==
    /\ wmSettings.position = "cc"
    /\ \E pg \in Anchored \cap WmPlaced :
          ~FitsX(pg.ops[1], pg) /\ ~FitsY(pg.ops[1], pg)

\* The pages of a tiled watermark export.
Tiled == IF wmSettings.isTiled THEN WmPlaced ELSE {}

\* The distance the code keeps between the centre of a tile and the origin
\* of the element it draws there.
TileOffsetX(o) == o.width \div 2
TileOffsetY(o) == IF o.op = "text" THEN o.height \div 3 ELSE o.height \div 2

\* C13: a tiled page gets exactly nine placements; placement number
\* 3 * i + j + 1 (i, j in 0..2: outer loop over x, inner over y) belongs to
\* the centre (width * (2i+1) / 6, height * (2j+1) / 6), whatever the anchor
\* and the size of the element; on a 300 x 300 page the centres are
\* {50, 150, 250} x {50, 150, 250}.
C13_TileDeterminism ==
    \A pg \in Tiled :
        /\ Len(pg.ops) = 9
        /\ \A i \in 0..2, j \in 0..2 :
              LET o == pg.ops[3 * i + j + 1]
              IN  /\ 6 * (o.x + TileOffsetX(o)) = pg.size.width * (2 * i + 1)
                  /\ 6 * (o.y + TileOffsetY(o)) = pg.size.height * (2 * j + 1)
        /\ pg.size = PageSize(300, 300) =>
              {<<pg.ops[k].x + TileOffsetX(pg.ops[k]),
                 pg.ops[k].y + TileOffsetY(pg.ops[k])>> : k \in 1..9}
                = {Pt(50), Pt(150), Pt(250)} \X {Pt(50), Pt(150), Pt(250)}

\* C13 witness: a tiled image export on the 300 x 300 page, with an anchor
\* other than the default one.
C13_Witness ==
    /\ wmSettings.type = "image" /\ wmSettings.position # "cc"
    /\ \E pg \in Tiled : pg.size = PageSize(300, 300)

\* C14 (as claimed): the origin of each of the nine tiled draws is the
\* centre of its tile less half the size of the element, on both axes, for
\* text and for images.
C14_TileOffsetIsHalf ==
    \A pg \in Tiled : \A i \in 0..2, j \in 0..2 :
        LET o == pg.ops[3 * i + j + 1]
        IN  /\ 6 * o.x = pg.size.width * (2 * i + 1) - 3 * o.width
            /\ 6 * o.y = pg.size.height * (2 * j + 1) - 3 * o.height


\* -- crop conversion -----------------------------------------------------
\* The pages the crop export targets: startIdx..endIdx.
CropTargets == CropStartIdx(cropSettings)..CropEndIdx(cropSettings, Len(Val(cropFile)))

CropExported == route = "/crop-pdf" /\ ~IsNull(cropRun) /\ ~IsNull(cropOut)

\* C15: after a crop export every target page has a crop box and a media
\* box equal to the same rectangle, computed from the percentage box with
\* the page's own width w and height h: x = X% * w, width = W% * w,
\* height = H% * h, y = h - Y% * h - height.
C15_CropConversion ==
    CropExported =>
        \A i \in CropTargets :
            LET before == Val(cropFile)[i + 1]
                after  == Val(cropOut)[i + 1]
                w == before.mediaBox.width
                h == before.mediaBox.height
            IN  /\ after.cropBox = after.mediaBox
                /\ 100 * after.cropBox.x = cropBox.x * w
                /\ 100 * after.cropBox.width = cropBox.width * w
                /\ 100 * after.cropBox.height = cropBox.height * h
                /\ 100 * after.cropBox.y
                      = 100 * h - cropBox.y * h - cropBox.height * h

\* C15 witness: a two-page document with pages of different sizes was
\* exported, both pages targeted, with a box the user pulled out of shape.
C15_Witness ==
    /\ CropExported
    /\ CropTargets = {0, 1}
    /\ Val(cropFile)[1] # Val(cropFile)[2]
    /\ cropBox.width # cropBox.height /\ cropBox.x # cropBox.y


\* C16: converting the percentage box to document space with the crop
\* conversion and the result back to UI space returns the original box, for
\* every box the user can shape and every page (width > 0, height > 0).
C16_RoundTrip ==
    CropExported =>
        \A i \in CropTargets :
            ToUISpace(Val(cropOut)[i + 1].cropBox, GetSize(Val(cropFile)[i + 1]))
                = cropBox

\* C16 witness: an export with a box moved off the diagonal and resized to
\* the minimum width.
C16_Witness ==
    /\ CropExported
    /\ cropBox.width = 5 /\ cropBox.y # 100 - cropBox.y - cropBox.height


\* -- what the preview shows ------------------------------------------------
WmPreviewShown == route = "/watermark-pdf" /\ ~IsNull(wmPreviewFile)
PnPreviewShown == route = "/page-numbers" /\ ~IsNull(pnPreviewFile)

\* The resolved range of the page numbers a request asks for.
PnResolved(req) == PnPagesToProcess(req.settings, Len(req.file), FALSE)

\* The page of its document that the page-number preview is to show: the
\* first page of the resolved range, or the first page of the document.
PnPageToShow(req) ==
    IF PnResolved(req) # <<>> THEN PnResolved(req)[1] ELSE 0

\* page is page number p (from 0) of the document, marked or not: the pages
\* of one uploaded document differ in size.
IsPageOf(page, file, p) == page.size = file[p + 1].size

\* C17 (as claimed): the page-number preview shows the first page of the
\* resolved range, or the first page of the document when the range is
\* empty; the watermark preview draws on the first page of the document
\* only, whatever the range.
C17_PreviewPageSelection ==
    /\ PnPreviewShown =>
          LET pv == Val(pnPreviewFile)
          IN  /\ Len(pv.doc) = 1
              /\ IsPageOf(pv.doc[1], pv.req.file, PnPageToShow(pv.req))
    /\ WmPreviewShown =>
          LET pv == Val(wmPreviewFile)
          IN  /\ Len(pv.doc) = Len(pv.req.file)
              /\ \A i \in 2..Len(pv.doc) : pv.doc[i] = pv.req.file[i]


\* The document a full apply of a preview request's settings to its file
\* saves.
WmFullApply(req) == Val(ApplyWatermark(req.file, req.settings, FALSE, ThrowNone))
PnFullApply(req) == Val(ApplyPageNumbers(req.file, req.settings, FALSE, ThrowNone))

\* C18: the previewed page of a text watermark (the first page of the
\* document) and of the page numbers (page startIdx) carries the draw
\* operations (text, position, size, colour, opacity, rotation) and the
\* content order that a full apply with the same settings gives that page,
\* whenever the page is in the resolved range.
C18_PreviewEqualsApply ==
    /\ WmPreviewShown =>
          LET pv == Val(wmPreviewFile)
          IN  ( /\ pv.req.settings.type = "text"
                /\ 0 \in WmTargetIndices(pv.req.settings, Len(pv.req.file)) )
              => pv.doc[1] = WmFullApply(pv.req)[1]
    /\ PnPreviewShown =>
          LET pv == Val(pnPreviewFile)
          IN  PnResolved(pv.req) # <<>>
              => pv.doc[1] = PnFullApply(pv.req)[PnStartIdx(pv.req.settings) + 1]

\* C18 witness: the preview of a tiled text watermark under the content of
\* a first page that is in range: nine draws, moved in front of the page's
\* own content streams.
C18_Witness ==
    /\ WmPreviewShown
    /\ LET pv == Val(wmPreviewFile)
       IN  /\ pv.req.settings.isTiled /\ pv.req.settings.layer = "under"
           /\ 0 \in WmTargetIndices(pv.req.settings, Len(pv.req.file))
           /\ Len(pv.doc[1].ops) = 9
           /\ Len(pv.doc[1].items) > 1 /\ pv.doc[1].items[1] = NewStream


\* -- layering of pages with a single content stream ------------------------
\* The pages of the uploaded document that the watermark export targets.
WmTargets == Range(WmPagesToProcess(wmSettings, Len(Val(wmFile)), FALSE))

\* The content streams of a page other than the one the draw calls wrote.
OwnStreams(page) == SelectSeq(page.items, LAMBDA it : it # NewStream)

\* C19: an 'under' watermark apply in which nothing else fails returns a
\* document, and on every target page whose content was at most a single
\* stream (no content, one stream, or an array of one) the content is kept:
\* the page's own stream is still there and the list holds it and, when
\* something was drawn, the new stream, and nothing else.
C19_UnderSingleContent ==
    ( /\ WmExported
      /\ wmSettings.layer = "under"
      /\ Val(wmRun).throwsAt = ThrowNone )
    => /\ ~IsNull(wmOut)
       /\ \A p \in WmTargets :
             LET before == Val(wmFile)[p + 1]
                 after  == Val(wmOut)[p + 1]
             IN  Len(before.items) <= 1 =>
                    /\ OwnStreams(after) = before.items
                    /\ Len(after.items) = Len(before.items)
                          + (IF p \in Drawn(Val(wmOut)) THEN 1 ELSE 0)

\* C19 witness: an 'under' export drew on a page without content, whose
\* content array then has the new stream as its only entry.
C19_Witness ==
    /\ WmExported /\ ~IsNull(wmOut)
    /\ wmSettings.layer = "under"
    /\ \E p \in WmTargets \cap Drawn(Val(wmOut)) :
          /\ Val(wmFile)[p + 1].items = <<>>
          /\ Val(wmOut)[p + 1].items = <<NewStream>>


\* -- range scoping -------------------------------------------------------
\* C20 (as claimed): a full apply of crop, watermark or page numbers changes
\* only the pages of the resolved range (start..end of the settings, empty
\* when end < start): every other page of the saved document has the boxes
\* and the content list of the uploaded page.
C20_RangeFrame ==
    /\ (WmExported /\ ~IsNull(wmOut)) =>
          \A p \in 0..(Len(Val(wmFile)) - 1) :
              p \notin Range(ClaimRange(wmSettings.startPage, wmSettings.endPage,
                                        Len(Val(wmFile))))
                => Val(wmOut)[p + 1] = Val(wmFile)[p + 1]
    /\ (PnExported /\ ~IsNull(pnOut)) =>
          \A p \in 0..(Len(Val(pnFile)) - 1) :
              p \notin Range(ClaimRange(pnSettings.fromPage, pnSettings.toPage,
                                        Len(Val(pnFile))))
                => Val(pnOut)[p + 1] = Val(pnFile)[p + 1]
    /\ CropExported =>
          \A p \in 0..(Len(Val(cropFile)) - 1) :
              p \notin Range(ClaimRange(cropSettings.startPage,
                                        cropSettings.endPage,
                                        Len(Val(cropFile))))
                => Val(cropOut)[p + 1] = Val(cropFile)[p + 1]


\* -- the API routes ----------------------------------------------------------
UnlockResponses ==
    {apiResponses[i] : i \in {j \in 1..Len(apiResponses) :
                                 apiResponses[j].api = "unlock"}}

\* C21 (as claimed): an unlock request for an encrypted document with a
\* wrong or missing password is answered with status 401 and no document,
\* and a document is returned only when the decryption succeeded.
C21_WrongPasswordIs401 ==
    \A r \in UnlockResponses :
        /\ ( /\ ~IsNull(r.request.file)
              /\ ~CanDecrypt(Val(r.request.file), r.request.password) )
           => (r.status = 401 /\ IsNull(r.body))
        /\ ~IsNull(r.body) =>
              ( /\ ~IsNull(r.request.file)
                /\ CanDecrypt(Val(r.request.file), r.request.password)
                /\ r.status = 200 )


\* C27 (as claimed): when a protect, unlock or compress request has been
\* answered, whatever the exit path, none of the temporary files it created
\* is left.
C27_TempFilesRemoved ==
    \A i \in 1..Len(apiResponses) :
        \A f \in apiTmp : f.req # apiResponses[i].req

\* C22: a range whose from is less than 1 is rejected: it resolves to no
\* page at all, so an export made with fromPage < 1 returns the uploaded
\* document unchanged.
C22_FromBelowOneRejected ==
    (PnExported /\ ~IsNull(pnOut) /\ pnSettings.fromPage < 1) =>
        Val(pnOut) = Val(pnFile)

\* The pages the export of the crop tool goes over.
CropTargetPages ==
    {i \in 1..Len(Val(cropFile)) :
        /\ i - 1 >= CropStartIdx(cropSettings)
        /\ i - 1 <= CropEndIdx(cropSettings, Len(Val(cropFile)))}

Degenerate(size) == size.width <= 0 \/ size.height <= 0

\* C23: when a page the export goes over has a width or a height of zero or
\* less, or the box has, the conversion fails: the export ends in the error
\* toast and no document with a committed box is produced.
C23_InvalidGeometryFails ==
    (route = "/crop-pdf" /\ ~IsNull(cropRun) /\
     \E i \in CropTargetPages :
        Degenerate(GetSize(Val(cropFile)[i])) \/ Degenerate(cropBox))
    => IsNull(cropOut)

\* C24: an 'under' watermark export that drew nothing on a target page (the
\* image is missing or failed to embed) leaves the content list of that
\* page in its original order: no stream of the uploaded page is moved.
C24_UnderNothingDrawnKeepsOrder ==
    (WmExported /\ ~IsNull(wmOut) /\ wmSettings.layer = "under") =>
        \A p \in WmTargets \ Drawn(Val(wmOut)) :
            Val(wmOut)[p + 1].items = Val(wmFile)[p + 1].items

\* C25: whatever the mouse, touch and pointer handlers, the Reset button and
\* a file change have done, the crop box is at least 5 and at most 100 wide
\* and high, and lies within the page: x, y >= 0, x + width <= 100,
\* y + height <= 100.
C25_CropBoxInvariant ==
    /\ cropBox.width >= 5 /\ cropBox.width <= 100
    /\ cropBox.height >= 5 /\ cropBox.height <= 100
    /\ cropBox.x >= 0 /\ cropBox.y >= 0
    /\ cropBox.x + cropBox.width <= 100
    /\ cropBox.y + cropBox.height <= 100

\* C26: while the east, south or south-east handle is pulled, x and y of the
\* crop box are the ones it had when the resize started.
C26_EastSouthKeepOrigin ==
    ( /\ route = "/crop-pdf"
      /\ ~isDragging
      /\ ~IsNull(isResizing)
      /\ isResizing \in {Some("e"), Some("s"), Some("se")} )
    => /\ cropBox.x = dragStart.boxX
       /\ cropBox.y = dragStart.boxY

\* C28: the number of pages the success toast of a crop export reports is
\* the number of pages the loop set the boxes of, and is never negative,
\* whatever the range, the empty one included.
C28_CropCountIsPagesSet ==
    (CropExported /\ cropToasts # <<>> /\ cropToasts[1].kind = "success") =>
        /\ cropToasts[1].n = Cardinality(CropTargetPages)
        /\ cropToasts[1].n >= 0

\* The rotate tool has saved a document.
RotSucceeded ==
    route = "/rotate-pdf" /\ ~IsNull(rotSaved) /\ Val(rotSaved) # <<>>

C30_NoPreviewWithoutFile ==
    /\ (route = "/watermark-pdf" /\ IsNull(wmFile)) => IsNull(wmPreviewFile)
    /\ (route = "/page-numbers" /\ IsNull(pnFile)) => IsNull(pnPreviewFile)

====================================================================
